---- MODULE Spec2Model ----
(***************************************************************************)
(* The visor of the ledger core: the chain of signed blocks, the unspent   *)
(* output set, the pool of unconfirmed transactions and the history index, *)
(* with every read-write operation run inside one db.Update transaction.   *)
(*                                                                         *)
(* db is the committed store.  tx is the read-write transaction in flight: *)
(* its working copy tx.w is what the handler's calls mutate, and it is     *)
(* committed or dropped when the handler returns.                          *)
(***************************************************************************)
EXTENDS Integers, Sequences, FiniteSets, TLC

VARIABLES Config, db, tx

vars == <<Config, db, tx>>

Nil == "nil"

(***************************************************************************)
(* Bounds of the model.                                                    *)
(***************************************************************************)
\* the longest chain explored (genesis included)
MaxBlocks == 4

(***************************************************************************)
(* Addresses, transactions and outputs.                                    *)
(***************************************************************************)
GenesisAddress == "g"
NullAddress == "null"
Addresses == {"g", "x", "y"}

GenesisCoinVolume == 10
GenesisTimestamp == 0

\* the key of the publisher, and the key of anybody else
BlockchainPubkey == "publisher"
OtherKey == "other"

\* The identifier of output i of transaction h: a pure function of the
\* output's body, which holds its source transaction.
UxId(h, i) == <<h, i>>

Out(a, c) == [Address |-> a, Coins |-> c, Hours |-> 0]

\* The transactions the callers can submit, by hash.  A transaction's hash
\* is a pure function of its content, so a hash names one content.
\*   G  the genesis transaction: no input, the whole volume to one address
\*   A  spends the genesis output, to x with change
\*   B  spends the genesis output too (conflicts with A); odd amounts
\*   C  spends A's first output
\*   D  spends the genesis output and creates a coin
\*   E  spends A's change and is larger than any policy allows
\*   F  spends A's change to the null address (conflicts with E)
\*   S  spends the genesis output with a bad signature
\*   H  spends the genesis output back to the genesis address
\*   K  spends B's change into two outputs; it only comes in a peer's block
\*   L, Q  spend B's first output; M, P spend K's first output; N spends K's
\*         second: they are only offered to block building
\*   R  spends E's output; it is only looked at as the content of a pool
TxnBody ==
  [ G |-> [In |-> <<>>, Out |-> <<Out(GenesisAddress, GenesisCoinVolume)>>, Size |-> 1, SigOK |-> TRUE],
    A |-> [In |-> <<UxId("G", 1)>>, Out |-> <<Out("x", 4), Out("g", 6)>>, Size |-> 2, SigOK |-> TRUE],
    B |-> [In |-> <<UxId("G", 1)>>, Out |-> <<Out("y", 5), Out("g", 5)>>, Size |-> 2, SigOK |-> TRUE],
    C |-> [In |-> <<UxId("A", 1)>>, Out |-> <<[Out("y", 4) EXCEPT !.Hours = 2]>>, Size |-> 1,
           SigOK |-> TRUE],
    D |-> [In |-> <<UxId("G", 1)>>, Out |-> <<Out("x", 11)>>, Size |-> 1, SigOK |-> TRUE],
    E |-> [In |-> <<UxId("A", 2)>>, Out |-> <<[Out("x", 6) EXCEPT !.Hours = 15]>>, Size |-> 3,
           SigOK |-> TRUE],
    F |-> [In |-> <<UxId("A", 2)>>, Out |-> <<Out(NullAddress, 6)>>, Size |-> 1, SigOK |-> TRUE],
    S |-> [In |-> <<UxId("G", 1)>>, Out |-> <<Out("x", 10)>>, Size |-> 1, SigOK |-> FALSE],
    H |-> [In |-> <<UxId("G", 1)>>, Out |-> <<Out(GenesisAddress, 10)>>, Size |-> 1, SigOK |-> TRUE],
    K |-> [In |-> <<UxId("B", 2)>>, Out |-> <<Out("g", 3), Out("x", 2)>>, Size |-> 1, SigOK |-> TRUE],
    L |-> [In |-> <<UxId("B", 1)>>, Out |-> <<Out("x", 5)>>, Size |-> 1, SigOK |-> TRUE],
    M |-> [In |-> <<UxId("K", 1)>>, Out |-> <<Out("y", 3)>>, Size |-> 1, SigOK |-> TRUE],
    N |-> [In |-> <<UxId("K", 2)>>, Out |-> <<Out("y", 2)>>, Size |-> 1, SigOK |-> TRUE],
    P |-> [In |-> <<UxId("K", 1)>>, Out |-> <<Out("x", 3)>>, Size |-> 2, SigOK |-> TRUE],
    Q |-> [In |-> <<UxId("B", 1)>>, Out |-> <<[Out("g", 5) EXCEPT !.Hours = 1]>>, Size |-> 2,
           SigOK |-> TRUE],
    R |-> [In |-> <<UxId("E", 1)>>, Out |-> <<Out("y", 6)>>, Size |-> 1, SigOK |-> TRUE] ]

Hashes == DOMAIN TxnBody

\* the transactions a caller injects or offers to block building
BuildTxns == {"L", "M", "N", "P", "Q"}
UserTxns == Hashes \ ({"G", "K", "R"} \cup BuildTxns)

Range(s) == {s[i] : i \in DOMAIN s}

RECURSIVE SumSeq(_)
SumSeq(s) == IF s = <<>> THEN 0 ELSE Head(s) + SumSeq(Tail(s))


Inputs(h) == Range(TxnBody[h].In)

\* coin.CreateUnspents: the outputs a transaction creates in a block
CreateUnspents(bkSeq, bkTime, h) ==
  { [Hash |-> UxId(h, i), SrcTransaction |-> h,
     Address |-> TxnBody[h].Out[i].Address, Coins |-> TxnBody[h].Out[i].Coins,
     Hours |-> TxnBody[h].Out[i].Hours, Time |-> bkTime, BkSeq |-> bkSeq]
    : i \in DOMAIN TxnBody[h].Out }

\* UxOut.CoinHours: the hours of an output at time t, accrued linearly
CoinHours(ux, t) == ux.Hours + (IF t > ux.Time THEN ux.Coins * (t - ux.Time) ELSE 0)

(***************************************************************************)
(* Blocks.                                                                 *)
(***************************************************************************)
\* the hash of a block's header, which covers the body
HashHeader(b) == <<b.BkSeq, b.Time, b.PrevHash, b.Transactions>>

NoHash == <<0, 0, <<>>, <<>> >>
BadHash == <<0 - 1, 0, <<>>, <<>> >>

\* SignedBlock.VerifySignature
VerifySignature(sb, pubkey) == sb.Sig = pubkey

(***************************************************************************)
(* The store: what one transaction scope reads and writes.                 *)
(***************************************************************************)
EmptyHistory == [txns |-> {}, outputs |-> {}, parsedBlockSeq |-> 0 - 1]

EmptyDB == [blockchain |-> <<>>, unspent |-> {}, unconfirmed |-> {}, history |-> EmptyHistory]

\* Blockchain.Head, HeadSeq, Len
HeadBlock(d) == d.blockchain[Len(d.blockchain)]
HeadSeqOk(d) == Len(d.blockchain) > 0
HeadSeq(d) == IF HeadSeqOk(d) THEN HeadBlock(d).BkSeq ELSE 0
HeadTime(d) == IF HeadSeqOk(d) THEN HeadBlock(d).Time ELSE 0

\* Unspent().GetArray: the outputs of the identifiers, or the failure
UnspentHashes(d) == {ux.Hash : ux \in d.unspent}
UxOf(d, id) == CHOOSE ux \in d.unspent : ux.Hash = id
GetArrayOk(d, ids) == \A i \in DOMAIN ids : ids[i] \in UnspentHashes(d)

\* the hashes of the pool
PoolHashes(d) == {u.Hash : u \in d.unconfirmed}

\* the hashes of the transactions in executed blocks
ConfirmedHashes(d) == UNION {Range(d.blockchain[i].Transactions) : i \in DOMAIN d.blockchain}

(***************************************************************************)
(* Verification of a single transaction: user, hard and soft constraints.  *)
(***************************************************************************)
ErrUser == "ErrTxnViolatesUserConstraint"
ErrHard == "ErrTxnViolatesHardConstraint"
ErrSoft == "ErrTxnViolatesSoftConstraint"
ErrSig == "InvalidSignature"
ErrBlock == "ConstraintViolation"
ErrUnspentNotExist == "ErrUnspentNotExist"
ErrStorage == "StorageFailure"
ErrStoreDown == "StoreDown"
ErrNoBlockInDepth == "NoBlockInDepth"
ErrNoTxns == "NoTransactions"
ErrPanic == "panic"
ErrTruncate == "TruncateBytesToFailed"

\* The three policies (VerifyTxnParameters).  DropletUnit is the smallest
\* amount the policy's decimal precision allows.
UnconfirmedVerifyTxn == [BurnFactor |-> 2, MaxTransactionSize |-> 2, DropletUnit |-> 1]
CreateBlockVerifyTxn == [BurnFactor |-> 2, MaxTransactionSize |-> 2, DropletUnit |-> 1]
UserVerifyTxn == [BurnFactor |-> 2, MaxTransactionSize |-> 2, DropletUnit |-> 2]

CoinsOut(h) == SumSeq([i \in DOMAIN TxnBody[h].Out |-> TxnBody[h].Out[i].Coins])
HoursOut(h) == SumSeq([i \in DOMAIN TxnBody[h].Out |-> TxnBody[h].Out[i].Hours])
\* the inputs are distinct when these are used
CoinsIn(d, h) == SumSeq([i \in DOMAIN TxnBody[h].In |-> UxOf(d, TxnBody[h].In[i]).Coins])
HoursIn(d, h) == SumSeq([i \in DOMAIN TxnBody[h].In |-> CoinHours(UxOf(d, TxnBody[h].In[i]), HeadTime(d))])

\* transaction.VerifySingleTxnUserConstraints
VerifySingleTxnUserConstraints(h) ==
  IF \E i \in DOMAIN TxnBody[h].Out : TxnBody[h].Out[i].Address = NullAddress
  THEN ErrUser ELSE Nil

\* hard constraints without the conservation of coins
VerifySingleTxnHardConstraints_NoCoins(d, h) ==
  IF /\ Len(TxnBody[h].In) > 0
     /\ Len(TxnBody[h].Out) > 0
     /\ Cardinality(Range(TxnBody[h].In)) = Len(TxnBody[h].In)
     /\ GetArrayOk(d, TxnBody[h].In)
     /\ TxnBody[h].SigOK
     /\ \A i \in DOMAIN TxnBody[h].Out : TxnBody[h].Out[i].Coins > 0
  THEN Nil ELSE ErrHard

\* the hard constraints: structure, no double spend, signatures, amounts,
\* conservation of coins
VerifySingleTxnHardConstraints(d, h) ==
  LET t == TxnBody[h] IN
  IF /\ Len(t.In) > 0
     /\ Len(t.Out) > 0
     /\ Cardinality(Range(t.In)) = Len(t.In)
     /\ GetArrayOk(d, t.In)
     /\ t.SigOK
     /\ \A i \in DOMAIN t.Out : t.Out[i].Coins > 0
     /\ CoinsIn(d, h) >= CoinsOut(h)
  THEN Nil ELSE ErrHard

\* the least number of hours a transaction must burn: ceil(hours / factor)
RequiredFee(hours, factor) == (hours + factor - 1) \div factor

\* Blockchain.TransactionFee at the head's time
TransactionFee(d, h) == HoursIn(d, h) - HoursOut(h)

\* the soft constraints of a policy: size, decimal precision, hours burnt.
\* Only used on a transaction whose inputs are unspent.
VerifySingleTxnSoftConstraints(d, h, params) ==
  LET t == TxnBody[h] IN
  IF /\ t.Size <= params.MaxTransactionSize
     /\ \A i \in DOMAIN t.Out : t.Out[i].Coins % params.DropletUnit = 0
     /\ HoursIn(d, h) >= HoursOut(h)
     /\ TransactionFee(d, h) >= RequiredFee(HoursIn(d, h), params.BurnFactor)
  THEN Nil ELSE ErrSoft

\* Blockchain.VerifySingleTxnSoftHardConstraints: hard before soft
VerifySingleTxnSoftHardConstraints(d, h, params) ==
  IF VerifySingleTxnHardConstraints(d, h) # Nil THEN ErrHard
  ELSE VerifySingleTxnSoftConstraints(d, h, params)

(***************************************************************************)
(* The chain: Blockchain.ExecuteBlock.                                     *)
(***************************************************************************)
\* a remove that lets an absent output pass
UnspentRemove_NoGuard(us, id) == [err |-> Nil, unspent |-> {ux \in us : ux.Hash # id}]

\* Unspent().remove: fails when the output is absent (the double-spend guard)
UnspentRemove(us, id) ==
  IF \E ux \in us : ux.Hash = id
  THEN [err |-> Nil, unspent |-> {ux \in us : ux.Hash # id}]
  ELSE [err |-> ErrUnspentNotExist, unspent |-> us]

\* the inputs of the block's transactions, in block order
RECURSIVE BlockInputs(_)
BlockInputs(txns) == IF txns = <<>> THEN <<>> ELSE TxnBody[Head(txns)].In \o BlockInputs(Tail(txns))

BlockOutputs(sb) == UNION {CreateUnspents(sb.BkSeq, sb.Time, h) : h \in Range(sb.Transactions)}

\* removes the identifiers one after the other; stops at the first failure,
\* leaving the removals made so far in the working copy
RECURSIVE RemoveInputs(_, _)
RemoveInputs(us, ids) ==
  IF ids = <<>> THEN [err |-> Nil, unspent |-> us]
  ELSE LET r == UnspentRemove(us, Head(ids))
       IN IF r.err # Nil THEN r ELSE RemoveInputs(r.unspent, Tail(ids))

\* a VerifyBlock that does not look at the sequence number
VerifyBlock_NoSeq(d, sb) ==
  IF ~HeadSeqOk(d)
  THEN (IF sb.Transactions # <<>> THEN Nil ELSE ErrBlock)
  ELSE IF /\ sb.PrevHash = HashHeader(HeadBlock(d))
          /\ sb.Time > HeadTime(d)
          /\ sb.Transactions # <<>>
          /\ Cardinality(Range(sb.Transactions)) = Len(sb.Transactions)
          /\ \A h \in Range(sb.Transactions) : VerifySingleTxnHardConstraints(d, h) = Nil
       THEN Nil ELSE ErrBlock

\* Blockchain.VerifyBlock: the block against the head, signature aside
VerifyBlock(d, sb) ==
  IF ~HeadSeqOk(d)
  THEN (IF sb.BkSeq = 0 /\ sb.Transactions # <<>> THEN Nil ELSE ErrBlock)
  ELSE IF /\ sb.BkSeq = HeadSeq(d) + 1
          /\ sb.PrevHash = HashHeader(HeadBlock(d))
          /\ sb.Time > HeadTime(d)
          /\ sb.Transactions # <<>>
          /\ Cardinality(Range(sb.Transactions)) = Len(sb.Transactions)
          /\ \A h \in Range(sb.Transactions) : VerifySingleTxnHardConstraints(d, h) = Nil
       THEN Nil ELSE ErrBlock

\* Blockchain.ExecuteBlock: verify, remove the inputs, add the outputs,
\* append.  On a failure the working copy keeps what was done before it.
ProcessBlock(d, sb, r) ==
  IF r.err # Nil THEN [err |-> r.err, db |-> [d EXCEPT !.unspent = r.unspent]]
  ELSE [err |-> Nil,
        db |-> [d EXCEPT !.unspent = r.unspent \cup BlockOutputs(sb),
                         !.blockchain = Append(@, sb)]]

\* an ExecuteBlock that does not verify the block against the head
ExecuteBlock_NoVerify(d, sb) ==
  ProcessBlock(d, sb, RemoveInputs(d.unspent, BlockInputs(sb.Transactions)))

ExecuteBlock(d, sb) ==
  IF VerifyBlock(d, sb) # Nil THEN [err |-> ErrBlock, db |-> d]
  ELSE ProcessBlock(d, sb, RemoveInputs(d.unspent, BlockInputs(sb.Transactions)))

(***************************************************************************)
(* The pool of unconfirmed transactions.                                   *)
(***************************************************************************)
\* UnconfirmedTransactionPool.InjectTransaction: hard violations are
\* fatal, a soft violation is recorded and returned
InjectVerified(d, h, e) ==
  IF e = ErrHard
  THEN [known |-> FALSE, softErr |-> Nil, err |-> e, db |-> d]
  ELSE [known |-> h \in PoolHashes(d), softErr |-> e, err |-> Nil,
        db |-> [d EXCEPT !.unconfirmed =
                  {u \in @ : u.Hash # h} \cup {[Hash |-> h, IsValid |-> (e = Nil)]}]]

InjectTransaction(d, h, params) ==
  InjectVerified(d, h, VerifySingleTxnSoftHardConstraints(d, h, params))

\* UnconfirmedTransactionPool.RemoveTransactions: no failure for a hash
\* that is not in the pool
RemoveTransactions(d, hashes) ==
  [d EXCEPT !.unconfirmed = {u \in @ : u.Hash \notin hashes}]

\* the pooled transactions that violate a hard constraint now
InvalidPooled(d) == {h \in PoolHashes(d) : VerifySingleTxnHardConstraints(d, h) # Nil}

\* a sweep that takes every transaction recorded as invalid
RemoveInvalid_Flagged(d) ==
  [hashes |-> {u.Hash : u \in {v \in d.unconfirmed : ~v.IsValid}},
   removed |-> {u.Hash : u \in {v \in d.unconfirmed : ~v.IsValid}},
   err |-> Nil,
   db |-> RemoveTransactions(d, {u.Hash : u \in {v \in d.unconfirmed : ~v.IsValid}})]

\* UnconfirmedTransactionPool.RemoveInvalid
RemoveHashes(d, rm) ==
  [hashes |-> rm, removed |-> rm, err |-> Nil, db |-> RemoveTransactions(d, rm)]

RemoveInvalid(d) == RemoveHashes(d, InvalidPooled(d))

\* a Refresh that removes the transactions that violate a hard constraint
\* and returns them
RefreshKept(d, params, rm) ==
  [hashes |-> rm, removed |-> rm, err |-> Nil,
   db |-> [d EXCEPT !.unconfirmed =
             {[Hash |-> u.Hash,
               IsValid |-> (VerifySingleTxnSoftConstraints(d, u.Hash, params) = Nil)]
              : u \in {v \in d.unconfirmed : v.Hash \notin rm}}]]

Refresh_Removing(d, params) == RefreshKept(d, params, InvalidPooled(d))

\* the pooled transactions recorded as invalid that satisfy the soft and
\* hard constraints now
TurnedValid(d, params) ==
  {u.Hash : u \in {v \in d.unconfirmed :
                     ~v.IsValid /\ VerifySingleTxnSoftHardConstraints(d, v.Hash, params) = Nil}}

\* UnconfirmedTransactionPool.Refresh: checks every pooled transaction
\* against the chain, records whether it is valid now and returns those that
\* turned valid
Refresh(d, params) ==
  [hashes |-> TurnedValid(d, params), removed |-> {}, err |-> Nil,
   db |-> [d EXCEPT !.unconfirmed =
             {[Hash |-> u.Hash,
               IsValid |-> (VerifySingleTxnSoftHardConstraints(d, u.Hash, params) = Nil)]
              : u \in @}]]

\* the order of the hashes as byte strings
HashRank ==
  [G |-> 0, A |-> 1, B |-> 2, C |-> 3, D |-> 4, E |-> 5, F |-> 6, S |-> 7, H |-> 8,
   K |-> 9, M |-> 10, N |-> 11, P |-> 12, L |-> 13, Q |-> 14, R |-> 15]
HashLess(a, b) == HashRank[a] < HashRank[b]

\* UnconfirmedTransactionPool.AllRawTransactions, in the order of the store
\* (by hash)
RECURSIVE SortedSeq(_)
SortedSeq(S) ==
  IF S = {} THEN <<>>
  ELSE LET m == CHOOSE x \in S : \A y \in S : ~(HashLess(y, x)) IN <<m>> \o SortedSeq(S \ {m})

AllRawTransactions(d) == SortedSeq(PoolHashes(d))

(***************************************************************************)
(* The history index.                                                      *)
(***************************************************************************)
HistoryOutputHashes(hist) == {o.Hash : o \in hist.outputs}

\* historydb.ParseBlock: records the block's transactions and outputs and
\* marks its inputs spent; fails when an input was never recorded
Spender(sb, id) == CHOOSE h \in Range(sb.Transactions) : id \in Inputs(h)

HistoryOutputsOf(sb) ==
  {[Hash |-> ux.Hash, Address |-> ux.Address, SrcBkSeq |-> sb.BkSeq,
    SpentBlockSeq |-> 0 - 1, SpentTxnID |-> Nil] : ux \in BlockOutputs(sb)}

ParseInputs(d, sb, ins) ==
  IF ~(ins \subseteq HistoryOutputHashes(d.history))
  THEN [err |-> ErrStorage, db |-> d]
  ELSE [err |-> Nil,
        db |-> [d EXCEPT !.history =
          [txns |-> @.txns \cup {[Hash |-> h, BlockSeq |-> sb.BkSeq] : h \in Range(sb.Transactions)},
           outputs |-> {IF o.Hash \in ins
                        THEN [o EXCEPT !.SpentBlockSeq = sb.BkSeq, !.SpentTxnID = Spender(sb, o.Hash)]
                        ELSE o : o \in @.outputs} \cup HistoryOutputsOf(sb),
           parsedBlockSeq |-> sb.BkSeq]]]

ParseBlock(d, sb) == ParseInputs(d, sb, Range(BlockInputs(sb.Transactions)))

\* historydb.NeedsReset: the bookkeeping of the parsed height is missing or
\* does not agree with the head
NeedsReset(d) == d.history.parsedBlockSeq < 0 \/ d.history.parsedBlockSeq # HeadSeq(d)

\* historydb.Erase
Erase(d) == [d EXCEPT !.history = EmptyHistory]

\* historydb.ParsedBlockSeq: (seq, ok); seq is a uint64, 0 when there is none
ParsedBlockSeq(d) ==
  IF d.history.parsedBlockSeq < 0 THEN [seq |-> 0, ok |-> FALSE]
  ELSE [seq |-> d.history.parsedBlockSeq, ok |-> TRUE]

\* the queries of the index
AddressSeen(hist, a) == \E o \in hist.outputs : o.Address = a
GetOutputsForAddress(hist, a) == {o \in hist.outputs : o.Address = a}
GetTransaction(hist, h) == {t \in hist.txns : t.Hash = h}

(***************************************************************************)
(* Balances.  uint64 is modelled with 4 bits.                              *)
(***************************************************************************)
MaxUint64 == 15

ErrUint64AddOverflow == "ErrUint64AddOverflow"
ErrUint64MultOverflow == "ErrUint64MultOverflow"
ErrAddEarnedCoinHoursAdditionOverflow == "ErrAddEarnedCoinHoursAdditionOverflow"

\* mathutil.AddUint64
AddUint64(a, b) ==
  IF a + b > MaxUint64 THEN [err |-> ErrUint64AddOverflow, v |-> 0] ELSE [err |-> Nil, v |-> a + b]

\* coin.UxOut.CoinHours: the hours of the output plus those earned since
\* its creation, both steps checked
UxOutCoinHours(ux, t) ==
  IF t < ux.Time THEN [err |-> Nil, v |-> ux.Hours]
  ELSE IF ux.Coins * (t - ux.Time) > MaxUint64 THEN [err |-> ErrUint64MultOverflow, v |-> 0]
  ELSE IF ux.Hours + ux.Coins * (t - ux.Time) > MaxUint64
       THEN [err |-> ErrAddEarnedCoinHoursAdditionOverflow, v |-> 0]
  ELSE [err |-> Nil, v |-> ux.Hours + ux.Coins * (t - ux.Time)]

\* the order of outputs in an array: by hash
UxRank(ux) == HashRank[ux.Hash[1]] * 4 + ux.Hash[2]

RECURSIVE UxArray(_)
UxArray(S) ==
  IF S = {} THEN <<>>
  ELSE <<CHOOSE x \in S : \A y \in S : UxRank(x) <= UxRank(y)>>
         \o UxArray(S \ {CHOOSE x \in S : \A y \in S : UxRank(x) <= UxRank(y)})

\* coin.UxArray.Coins
RECURSIVE CoinsFrom(_, _)
CoinsFrom(uxs, sum) ==
  IF uxs = <<>> THEN [err |-> Nil, v |-> sum]
  ELSE IF AddUint64(sum, Head(uxs).Coins).err # Nil THEN AddUint64(sum, Head(uxs).Coins)
  ELSE CoinsFrom(Tail(uxs), sum + Head(uxs).Coins)

UxArrayCoins(uxs) == CoinsFrom(uxs, 0)

\* coin.UxArray.CoinHours
RECURSIVE CoinHoursFrom(_, _, _)
CoinHoursFrom(uxs, t, sum) ==
  IF uxs = <<>> THEN [err |-> Nil, v |-> sum]
  ELSE IF UxOutCoinHours(Head(uxs), t).err # Nil THEN UxOutCoinHours(Head(uxs), t)
  ELSE IF AddUint64(sum, UxOutCoinHours(Head(uxs), t).v).err # Nil
       THEN AddUint64(sum, UxOutCoinHours(Head(uxs), t).v)
  ELSE CoinHoursFrom(Tail(uxs), t, sum + UxOutCoinHours(Head(uxs), t).v)

UxArrayCoinHours(uxs, t) == CoinHoursFrom(uxs, t, 0)

\* Visor.AddressBalances: every output's hours, then its coins, then the
\* hours are added; the first failure ends it with no totals
RECURSIVE AddressBalancesFrom(_, _, _, _)
AddressBalancesFrom(uxs, t, coins, hours) ==
  IF uxs = <<>> THEN [err |-> Nil, coins |-> coins, hours |-> hours]
  ELSE IF UxOutCoinHours(Head(uxs), t).err # Nil
       THEN [err |-> UxOutCoinHours(Head(uxs), t).err, coins |-> 0, hours |-> 0]
  ELSE IF AddUint64(coins, Head(uxs).Coins).err # Nil
       THEN [err |-> ErrUint64AddOverflow, coins |-> 0, hours |-> 0]
  ELSE IF AddUint64(hours, UxOutCoinHours(Head(uxs), t).v).err # Nil
       THEN [err |-> ErrUint64AddOverflow, coins |-> 0, hours |-> 0]
  ELSE AddressBalancesFrom(Tail(uxs), t, coins + Head(uxs).Coins,
                           hours + UxOutCoinHours(Head(uxs), t).v)

\* auxs is the set of the outputs of all the addresses of the map
AddressBalances(headTime, auxs) == AddressBalancesFrom(UxArray(auxs), headTime, 0, 0)

\* txnOutputsForAddrs: the outputs the pooled transactions would create on
\* the head
PoolOutputs(d) == UNION {CreateUnspents(HeadSeq(d), HeadTime(d), h) : h \in PoolHashes(d)}

\* the inputs of the pooled transactions
PoolInputs(d) == BlockInputs(AllRawTransactions(d))

\* Unspent().GetUnspentsOfAddrs: an entry for every address asked for
GetUnspentsOfAddrs(d, addrs) ==
  [a \in Range(addrs) |-> {ux \in d.unspent : ux.Address = a}]

\* the outputs of the address the pooled transactions spend
SpendUxs(d, addr) == {ux \in d.unspent : ux.Hash \in Range(PoolInputs(d)) /\ ux.Address = addr}

\* the outputs the pooled transactions would give the address
RecvUxs(d, addr) == {ux \in PoolOutputs(d) : ux.Address = addr}

\* the predicted outputs without the incoming ones
PredictedUxs_NoAdd(d, uxs, addr) == uxs \ SpendUxs(d, addr)

\* the predicted outputs without the subtraction of the spent ones
PredictedUxs_NoSub(d, uxs, addr) == uxs \cup RecvUxs(d, addr)

\* uxs.Sub(outUxs).Add(inUxs)
PredictedUxs(d, uxs, addr) == (uxs \ SpendUxs(d, addr)) \cup RecvUxs(d, addr)

Balance(c, h) == [Coins |-> c, Hours |-> h]
BalancePair(c, p) == [Confirmed |-> c, Predicted |-> p]
EmptyBalancePair == BalancePair(Balance(0, 0), Balance(0, 0))

\* the balance pair with the error of the predicted coins not looked at
MakeBalancePair_IgnorePcoinsErr(coins, coinHours, pcoins, pcoinHours) ==
  IF coins.err # Nil THEN [err |-> coins.err, bp |-> EmptyBalancePair]
  ELSE IF coinHours.err \notin {Nil, ErrAddEarnedCoinHoursAdditionOverflow}
       THEN [err |-> coinHours.err, bp |-> EmptyBalancePair]
  ELSE IF pcoinHours.err \notin {Nil, ErrAddEarnedCoinHoursAdditionOverflow}
       THEN [err |-> pcoinHours.err, bp |-> EmptyBalancePair]
  ELSE [err |-> Nil,
        bp |-> BalancePair(
                 Balance(coins.v, IF coinHours.err # Nil \/ pcoinHours.err # Nil
                                  THEN 0 ELSE coinHours.v),
                 Balance(pcoins.v, pcoinHours.v))]

\* a balance pair whose confirmed hours are those of the predicted outputs
MakeBalancePair_HoursOfPredicted(coins, coinHours, pcoins, pcoinHours) ==
  IF coins.err # Nil THEN [err |-> coins.err, bp |-> EmptyBalancePair]
  ELSE IF coinHours.err \notin {Nil, ErrAddEarnedCoinHoursAdditionOverflow}
       THEN [err |-> coinHours.err, bp |-> EmptyBalancePair]
  ELSE IF pcoins.err # Nil THEN [err |-> pcoins.err, bp |-> EmptyBalancePair]
  ELSE IF pcoinHours.err \notin {Nil, ErrAddEarnedCoinHoursAdditionOverflow}
       THEN [err |-> pcoinHours.err, bp |-> EmptyBalancePair]
  ELSE [err |-> Nil,
        bp |-> BalancePair(Balance(coins.v, pcoinHours.v), Balance(pcoins.v, pcoinHours.v))]

\* the balance pair of one address from its four totals, in the order the
\* errors are looked at; ErrAddEarnedCoinHoursAdditionOverflow of either
\* hour total sets the confirmed hours to 0
MakeBalancePair(coins, coinHours, pcoins, pcoinHours) ==
  IF coins.err # Nil THEN [err |-> coins.err, bp |-> EmptyBalancePair]
  ELSE IF coinHours.err \notin {Nil, ErrAddEarnedCoinHoursAdditionOverflow}
       THEN [err |-> coinHours.err, bp |-> EmptyBalancePair]
  ELSE IF pcoins.err # Nil THEN [err |-> pcoins.err, bp |-> EmptyBalancePair]
  ELSE IF pcoinHours.err \notin {Nil, ErrAddEarnedCoinHoursAdditionOverflow}
       THEN [err |-> pcoinHours.err, bp |-> EmptyBalancePair]
  ELSE [err |-> Nil,
        bp |-> BalancePair(
                 Balance(coins.v, IF coinHours.err # Nil \/ pcoinHours.err # Nil
                                  THEN 0 ELSE coinHours.v),
                 Balance(pcoins.v, pcoinHours.v))]

BalancePairOfUxs(d, uxs, puxs) ==
  MakeBalancePair(UxArrayCoins(UxArray(uxs)), UxArrayCoinHours(UxArray(uxs), HeadTime(d)),
                  UxArrayCoins(UxArray(puxs)), UxArrayCoinHours(UxArray(puxs), HeadTime(d)))

\* the loop body of GetBalanceOfAddresses for one address
BalancePairOf(d, auxs, addr) ==
  IF addr \notin DOMAIN auxs THEN [err |-> Nil, bp |-> EmptyBalancePair]
  ELSE BalancePairOfUxs(d, auxs[addr], PredictedUxs(d, auxs[addr], addr))

RECURSIVE BalancePairsFrom(_, _, _, _)
BalancePairsFrom(d, auxs, addrs, bps) ==
  IF addrs = <<>> THEN [err |-> Nil, bps |-> bps]
  ELSE IF BalancePairOf(d, auxs, Head(addrs)).err # Nil
       THEN [err |-> BalancePairOf(d, auxs, Head(addrs)).err, bps |-> <<>>]
  ELSE BalancePairsFrom(d, auxs, Tail(addrs), Append(bps, BalancePairOf(d, auxs, Head(addrs)).bp))

\* Visor.GetBalanceOfAddresses
GetBalanceOfAddresses(d, addrs) ==
  IF addrs = <<>> THEN [err |-> Nil, bps |-> <<>>]
  ELSE IF ~GetArrayOk(d, PoolInputs(d)) THEN [err |-> ErrUnspentNotExist, bps |-> <<>>]
  ELSE BalancePairsFrom(d, GetUnspentsOfAddrs(d, addrs), addrs, <<>>)

\* Visor.unconfirmedOutgoingOutputs: the unspent outputs the pooled
\* transactions spend; GetArray fails when one of them is not unspent
unconfirmedOutgoingOutputs(d) ==
  IF ~GetArrayOk(d, PoolInputs(d)) THEN [err |-> ErrUnspentNotExist, uxs |-> {}]
  ELSE [err |-> Nil, uxs |-> {UxOf(d, id) : id \in Range(PoolInputs(d))}]

\* Visor.GetUnspentOutputsSummary with no filter, what its db.View reads: the head, every unspent
\* output, the outgoing and the incoming outputs of the pool
GetUnspentOutputsSummary(d) ==
  IF unconfirmedOutgoingOutputs(d).err # Nil
  THEN [err |-> unconfirmedOutgoingOutputs(d).err, HeadSeq |-> 0, Confirmed |-> {},
        Outgoing |-> {}, Incoming |-> {}]
  ELSE [err |-> Nil, HeadSeq |-> HeadSeq(d), Confirmed |-> d.unspent,
        Outgoing |-> unconfirmedOutgoingOutputs(d).uxs, Incoming |-> PoolOutputs(d)]

\* wallet.Balance.Add and wallet.BalancePair totals of the balance handler
AddBalance(a, b) ==
  IF AddUint64(a.Coins, b.Coins).err # Nil \/ AddUint64(a.Hours, b.Hours).err # Nil
  THEN [err |-> ErrUint64AddOverflow, b |-> Balance(0, 0)]
  ELSE [err |-> Nil, b |-> Balance(a.Coins + b.Coins, a.Hours + b.Hours)]

RECURSIVE SumBalancePairs(_, _)
SumBalancePairs(bps, total) ==
  IF bps = <<>> THEN [err |-> Nil, bp |-> total]
  ELSE IF \/ AddBalance(total.Confirmed, Head(bps).Confirmed).err # Nil
          \/ AddBalance(total.Predicted, Head(bps).Predicted).err # Nil
       THEN [err |-> ErrUint64AddOverflow, bp |-> EmptyBalancePair]
  ELSE SumBalancePairs(Tail(bps),
         BalancePair(AddBalance(total.Confirmed, Head(bps).Confirmed).b,
                     AddBalance(total.Predicted, Head(bps).Predicted).b))

\* the balance handler of the API: the total of the pairs of the addresses
balanceHandler(d, addrs) ==
  IF GetBalanceOfAddresses(d, addrs).err # Nil
  THEN [err |-> GetBalanceOfAddresses(d, addrs).err, bp |-> EmptyBalancePair]
  ELSE SumBalancePairs(GetBalanceOfAddresses(d, addrs).bps, EmptyBalancePair)

(***************************************************************************)
(* The transactions finder of the wallet.                                  *)
(***************************************************************************)
ErrInvalidAddress == "invalid skycoin address"
ErrDuplicateAddresses == "duplicates addresses not allowed"

\* a cipher.Addresser that is no cipher.Address
ForeignAddress == "btc"

\* a scan of the history from the first address to the last that stops at
\* the first address that was seen
LastSeen_FirstSeen(hist, addrs) ==
  IF \E i \in DOMAIN addrs : AddressSeen(hist, addrs[i])
  THEN CHOOSE i \in DOMAIN addrs :
         /\ AddressSeen(hist, addrs[i])
         /\ \A j \in DOMAIN addrs : AddressSeen(hist, addrs[j]) => j >= i
  ELSE 0

\* the scan of the history: from the last address to the first, it stops at
\* the first address that was seen; 0 when none was
LastSeen(hist, addrs) ==
  IF \E i \in DOMAIN addrs : AddressSeen(hist, addrs[i])
  THEN CHOOSE i \in DOMAIN addrs :
         /\ AddressSeen(hist, addrs[i])
         /\ \A j \in DOMAIN addrs : AddressSeen(hist, addrs[j]) => j <= i
  ELSE 0

\* the addresses of the outputs of the pooled transactions
PoolOutputAddresses(d) ==
  UNION {{TxnBody[h].Out[i].Address : i \in DOMAIN TxnBody[h].Out} : h \in PoolHashes(d)}

\* flags of a scan of the history that does not stop
ActiveFlags_NoBreak(d, addrs) ==
  [i \in DOMAIN addrs |->
     AddressSeen(d.history, addrs[i]) \/ addrs[i] \in PoolOutputAddresses(d)]

\* the flags after the scan of the history and the pass over the pool
ActiveFlags(d, addrs) ==
  [i \in DOMAIN addrs |->
     i = LastSeen(d.history, addrs) \/ addrs[i] \in PoolOutputAddresses(d)]

\* an AddressesActivity that does not look for duplicates
AddressesActivity_NoDuplicateCheck(d, addrs) ==
  IF Len(addrs) = 0 THEN {[err |-> Nil, active |-> <<>>]}
  ELSE IF \E i \in DOMAIN addrs : addrs[i] = ForeignAddress
       THEN {[err |-> ErrInvalidAddress, active |-> <<>>]}
  ELSE {[err |-> Nil, active |-> ActiveFlags(d, addrs)], [err |-> ErrStorage, active |-> <<>>]}

\* TransactionsFinder.AddressesActivity: the results it can have; the reads
\* of the history and of the pool can fail in the store
AddressesActivity(d, addrs) ==
  IF Len(addrs) = 0 THEN {[err |-> Nil, active |-> <<>>]}
  ELSE IF \E i \in DOMAIN addrs : addrs[i] = ForeignAddress
       THEN {[err |-> ErrInvalidAddress, active |-> <<>>]}
  ELSE IF Cardinality(Range(addrs)) # Len(addrs)
       THEN {[err |-> ErrDuplicateAddresses, active |-> <<>>]}
  ELSE {[err |-> Nil, active |-> ActiveFlags(d, addrs)], [err |-> ErrStorage, active |-> <<>>]}

(***************************************************************************)
(* Block building.                                                         *)
(***************************************************************************)
\* Config.MaxBlockTransactionsSize, and one smaller than a transaction the
\* block-creation policy lets pass; coin.MaxBlockTransactions
MaxBlockTransactionsSize == 4
SmallBlockTransactionsSize == 1
MaxBlockTransactions == 2

NoBlock == [BkSeq |-> 0, Time |-> 0, PrevHash |-> NoHash, Transactions |-> <<>>, Sig |-> OtherKey]

\* a filter that lets pass what violates a soft constraint only
RECURSIVE FilterTxns_HardOnly(_, _)
FilterTxns_HardOnly(d, txns) ==
  IF txns = <<>> THEN <<>>
  ELSE (IF VerifySingleTxnHardConstraints(d, Head(txns)) = Nil
        THEN <<Head(txns)>> ELSE <<>>) \o FilterTxns_HardOnly(d, Tail(txns))

\* the filter of createBlockFromTxns: the candidates that satisfy the soft
\* and hard constraints of the block-creation policy, in the given order
RECURSIVE FilterTxns(_, _)
FilterTxns(d, txns) ==
  IF txns = <<>> THEN <<>>
  ELSE (IF VerifySingleTxnSoftHardConstraints(d, Head(txns), CreateBlockVerifyTxn) = Nil
        THEN <<Head(txns)>> ELSE <<>>) \o FilterTxns(d, Tail(txns))

\* a goes before b: higher fee per byte, ties by hash
FeeOrder(fa, fb, a, b) == fa > fb \/ (fa = fb /\ HashLess(a, b))

FeeBefore(d, a, b) ==
  FeeOrder(TransactionFee(d, a) * TxnBody[b].Size, TransactionFee(d, b) * TxnBody[a].Size, a, b)

\* coin.SortTransactions, on transactions whose inputs are unspent
FirstByFee(d, S) == CHOOSE x \in S : \A y \in S \ {x} : FeeBefore(d, x, y)

RECURSIVE SortTransactions(_, _)
SortFrom(d, S, m) == <<m>> \o SortTransactions(d, S \ {m})
SortTransactions(d, S) == IF S = {} THEN <<>> ELSE SortFrom(d, S, FirstByFee(d, S))

\* Transactions.TruncateBytesTo: the longest prefix of whole transactions
\* within the size
RECURSIVE TruncateBytesTo(_, _)
TruncateBytesTo(txns, size) ==
  IF txns = <<>> \/ TxnBody[Head(txns)].Size > size THEN <<>>
  ELSE <<Head(txns)>> \o TruncateBytesTo(Tail(txns), size - TxnBody[Head(txns)].Size)

\* Blockchain.NewBlock: the block that follows the head; fails when the
\* transactions cannot all be spent together
NewBlock(d, txns, when) ==
  IF RemoveInputs(d.unspent, BlockInputs(txns)).err # Nil
  THEN [err |-> ErrBlock, b |-> NoBlock]
  ELSE [err |-> Nil,
        b |-> [BkSeq |-> HeadSeq(d) + 1, Time |-> when, PrevHash |-> HashHeader(HeadBlock(d)),
               Transactions |-> txns, Sig |-> OtherKey]]

\* Visor.createBlockFromTxns
\* no cap of the number of transactions
CapTransactions_NoCap(txns) == txns

\* the cap of the number of transactions
CapTransactions(txns) ==
  IF Len(txns) > MaxBlockTransactions THEN SubSeq(txns, 1, MaxBlockTransactions) ELSE txns

\* the end of createBlockFromTxns, from the truncated list on
BlockOfTruncated(d, txns, when) ==
  IF Len(txns) = 0 THEN [err |-> ErrPanic, b |-> NoBlock]
  ELSE NewBlock(d, txns, when)

\* a build that keeps the order the candidates came in
BlockOfFiltered_Unsorted(d, filtered, when) ==
  IF Len(filtered) = 0 THEN [err |-> ErrNoTxns, b |-> NoBlock]
  ELSE BlockOfTruncated(d,
         CapTransactions(TruncateBytesTo(filtered, Config.MaxBlockTransactionsSize)), when)

\* a build that goes on with an empty filtered list
BlockOfFiltered_NoCheck(d, filtered, when) ==
  BlockOfTruncated(d,
    CapTransactions(TruncateBytesTo(SortTransactions(d, Range(filtered)),
                                    Config.MaxBlockTransactionsSize)),
    when)

\* createBlockFromTxns from the filtered list on: sort, truncate, cap
BlockOfFiltered(d, filtered, when) ==
  IF Len(filtered) = 0 THEN [err |-> ErrNoTxns, b |-> NoBlock]
  ELSE BlockOfTruncated(d,
         CapTransactions(TruncateBytesTo(SortTransactions(d, Range(filtered)),
                                         Config.MaxBlockTransactionsSize)),
         when)

createBlockFromTxns(d, txns, when) ==
  IF Len(txns) = 0 THEN [err |-> ErrNoTxns, b |-> NoBlock]
  ELSE BlockOfFiltered(d, FilterTxns(d, txns), when)

\* the verification of a candidate returned an error that is no constraint
\* violation: createBlockFromTxns returns it
VerifyFailed(e) == [err |-> e, b |-> NoBlock]

\* the results createBlockFromTxns can have: the store can fail in the
\* verification of any candidate
\* TruncateBytesTo returned an error: createBlockFromTxns returns it
TruncateFailed == [err |-> ErrTruncate, b |-> NoBlock]

\* the results createBlockFromTxns can have: the store can fail in the
\* verification of any candidate, and the truncation of a filtered list
\* can fail to take the size of a transaction
createBlockFromTxnsResults(d, txns, when) ==
  {createBlockFromTxns(d, txns, when)}
  \cup {VerifyFailed(ErrStorage) : i \in DOMAIN txns}
  \cup {TruncateFailed : i \in DOMAIN FilterTxns(d, txns)}

\* Visor.signBlock: only called on a publisher node
signBlock(b) == [b EXCEPT !.Sig = BlockchainPubkey]

\* Visor.createBlock
SignBuilt(r) == IF r.err # Nil THEN r ELSE [err |-> Nil, b |-> signBlock(r.b)]

\* a createBlock that builds and signs on any node
createBlock_AnyNode(d, when) == SignBuilt(createBlockFromTxns(d, AllRawTransactions(d), when))

createBlock(d, when) ==
  IF ~Config.IsBlockPublisher THEN [err |-> ErrPanic, b |-> NoBlock]
  ELSE SignBuilt(createBlockFromTxns(d, AllRawTransactions(d), when))

createBlockResults(d, when) ==
  {createBlock(d, when)}
  \cup {r \in createBlockFromTxnsResults(d, AllRawTransactions(d), when) :
           Config.IsBlockPublisher /\ r.err \in {ErrStorage, ErrTruncate}}

\* coin.NewGenesisBlock
NewGenesisBlock ==
  [BkSeq |-> 0, Time |-> GenesisTimestamp, PrevHash |-> NoHash, Transactions |-> <<"G">>, Sig |-> OtherKey]

(***************************************************************************)
(* The read-write transaction in flight.                                   *)
(***************************************************************************)
Idle ==
  [op |-> "none", pc |-> "idle", b |-> NoBlock, txn |-> Nil, txns |-> <<>>, when |-> 0,
   w |-> EmptyDB, err |-> Nil, known |-> FALSE, softErr |-> Nil, removed |-> {},
   hashes |-> {},
   arg |-> <<>>, res |-> <<>>,
   reset |-> FALSE, height |-> 0, seq |-> 0, i |-> 0, parsed |-> <<>>]

\* the process is not running; the store is on disk
Down == [Idle EXCEPT !.pc = "down"]

\* db.Update hands the handler a working copy of the committed store
Begin(op, pc) == [Idle EXCEPT !.op = op, !.pc = pc, !.w = db]

Return(t, e) == [t EXCEPT !.pc = "return", !.err = e]

\* an Update that commits whatever the handler returned
Commit_Always(t, d) == t.w

\* db.Update when the handler returns: commit on success, roll back on an
\* error or a panic
Commit(t, d) == IF t.err = Nil THEN t.w ELSE d

\* the handler returns what the pool's call r returned; r.db is the working
\* copy after the call
Returned(t, r) ==
  [Return(t, r.err) EXCEPT
     !.w = r.db,
     !.known = IF "known" \in DOMAIN r THEN r.known ELSE FALSE,
     !.softErr = IF "softErr" \in DOMAIN r THEN r.softErr ELSE Nil,
     !.removed = IF "removed" \in DOMAIN r THEN r.removed ELSE {},
     !.hashes = IF "hashes" \in DOMAIN r THEN r.hashes ELSE {}]

\* createBlock returned r: the block goes on to executeSignedBlock
Created(t, r) ==
  IF r.err # Nil THEN Return(t, r.err) ELSE [t EXCEPT !.b = r.b, !.pc = "VerifySignature"]

\* a CreateBlockFromTxns that takes the transactions of the block it built
\* out of the pool
Built_TakesFromPool(t, r) ==
  [Return(t, r.err) EXCEPT
     !.b = r.b,
     !.w = IF r.err = Nil THEN RemoveTransactions(t.w, Range(r.b.Transactions)) ELSE t.w]

\* CreateBlockFromTxns returns the block built, or the error
Built(t, r) == [Return(t, r.err) EXCEPT !.b = r.b]

\* Blockchain.GetSignedBlockBySeq: NoBlock when there is none
GetSignedBlockBySeq(d, n) ==
  IF n + 1 \in DOMAIN d.blockchain THEN d.blockchain[n + 1] ELSE NoBlock

\* an initHistory that keeps what the index holds
initHistory_NoErase(t) ==
  IF ~NeedsReset(t.w) THEN Return(t, Nil)
  ELSE [t EXCEPT !.pc = "parseHistoryTo", !.reset = TRUE,
                 !.height = HeadSeq(t.w), !.seq = ParsedBlockSeq(t.w).seq]

\* an initHistory that starts the parse before the first block
initHistory_FromGenesis(t) ==
  IF ~NeedsReset(t.w) THEN Return(t, Nil)
  ELSE [t EXCEPT !.w = Erase(t.w), !.pc = "parseHistoryTo", !.reset = TRUE,
                 !.height = IF HeadSeqOk(t.w) THEN HeadSeq(t.w) ELSE 0 - 1, !.seq = 0 - 1]

\* initHistory up to the call of parseHistoryTo, and the head of
\* parseHistoryTo: the height to reach and the sequence number to start after
initHistory(t) ==
  IF ~NeedsReset(t.w) THEN Return(t, Nil)
  ELSE [t EXCEPT !.w = Erase(t.w), !.pc = "parseHistoryTo", !.reset = TRUE,
                 !.height = HeadSeq(t.w), !.seq = ParsedBlockSeq(Erase(t.w)).seq]

\* a turn of the loop of parseHistoryTo; the subtraction is a uint64's
Parsed(t, b, r) ==
  IF r.err # Nil THEN Return(t, r.err)
  ELSE [t EXCEPT !.w = r.db, !.i = @ + 1, !.parsed = Append(@, b.BkSeq)]

ParseNext(t, b) ==
  IF b = NoBlock THEN Return(t, ErrNoBlockInDepth) ELSE Parsed(t, b, ParseBlock(t.w, b))

parseHistoryTo(t) ==
  IF ~(t.i < (t.height - t.seq) % (MaxUint64 + 1)) THEN Return(t, Nil)
  ELSE ParseNext(t, GetSignedBlockBySeq(t.w, t.seq + t.i + 1))

\* a maybeCreateGenesisBlock that creates nothing
maybeCreateGenesisBlock_Never(t) == [t EXCEPT !.pc = "RemoveInvalid"]

\* a maybeCreateGenesisBlock that does not look for a genesis block
maybeCreateGenesisBlock_Always(t) ==
  [t EXCEPT !.pc = "VerifySignature",
            !.b = IF Config.IsBlockPublisher THEN signBlock(NewGenesisBlock)
                  ELSE [NewGenesisBlock EXCEPT !.Sig = Config.GenesisSignature]]

\* a maybeCreateGenesisBlock that signs the genesis block on every node
maybeCreateGenesisBlock_Signs(t) ==
  IF HeadSeqOk(t.w) THEN [t EXCEPT !.pc = "RemoveInvalid"]
  ELSE [t EXCEPT !.pc = "VerifySignature", !.b = signBlock(NewGenesisBlock)]

\* Visor.maybeCreateGenesisBlock
maybeCreateGenesisBlock(t) ==
  IF HeadSeqOk(t.w) THEN [t EXCEPT !.pc = "RemoveInvalid"]
  ELSE [t EXCEPT !.pc = "VerifySignature",
                 !.b = IF Config.IsBlockPublisher THEN signBlock(NewGenesisBlock)
                       ELSE [NewGenesisBlock EXCEPT !.Sig = Config.GenesisSignature]]

\* an executeSignedBlock that does not verify the signature
executeSignedBlock_NoVerify(t) == [t EXCEPT !.pc = "ExecuteBlock"]

\* Visor.executeSignedBlock: the signature, then executeSignedBlockUnsafe
executeSignedBlock(t) ==
  IF ~VerifySignature(t.b, BlockchainPubkey) THEN Return(t, ErrSig)
  ELSE [t EXCEPT !.pc = "ExecuteBlock"]

\* where the caller of executeSignedBlock goes on: Init sweeps the pool,
\* the others return
AfterExecute(t) == IF t.op = "Init" THEN "RemoveInvalid" ELSE "return"

\* Visor.executeSignedBlockUnsafe, one call at a time: the results the call
\* at t.pc can have.  RemoveTransactions and ParseBlock can fail in the store.
\* the call returned r: on an error the handler returns it, else it goes on
\* at pc; the working copy keeps what the call did
Called(t, r, pc) ==
  IF r.err # Nil THEN [Return(t, r.err) EXCEPT !.w = r.db]
  ELSE [t EXCEPT !.w = r.db, !.pc = pc]

\* an executeSignedBlockUnsafe that drops the error of ExecuteBlock
executeSignedBlockUnsafe_IgnoreError(t) ==
  CASE t.pc = "ExecuteBlock" ->
         {[t EXCEPT !.w = ExecuteBlock(t.w, t.b).db, !.pc = "RemoveTransactions"]}
    [] t.pc = "RemoveTransactions" ->
         {[t EXCEPT !.w = RemoveTransactions(t.w, Range(t.b.Transactions)), !.pc = "ParseBlock"],
          Return(t, ErrStorage)}
    [] t.pc = "ParseBlock" ->
         {Called(t, ParseBlock(t.w, t.b), AfterExecute(t)), Return(t, ErrStorage)}

\* an executeSignedBlockUnsafe that leaves the block's transactions in the pool
executeSignedBlockUnsafe_KeepPooled(t) ==
  CASE t.pc = "ExecuteBlock" ->
         {Called(t, ExecuteBlock(t.w, t.b), "ParseBlock")}
    [] t.pc = "RemoveTransactions" ->
         {[t EXCEPT !.pc = "ParseBlock"]}
    [] t.pc = "ParseBlock" ->
         {Called(t, ParseBlock(t.w, t.b), AfterExecute(t)), Return(t, ErrStorage)}

executeSignedBlockUnsafe(t) ==
  CASE t.pc = "ExecuteBlock" ->
         {Called(t, ExecuteBlock(t.w, t.b), "RemoveTransactions")}
    [] t.pc = "RemoveTransactions" ->
         {[t EXCEPT !.w = RemoveTransactions(t.w, Range(t.b.Transactions)), !.pc = "ParseBlock"],
          Return(t, ErrStorage)}
    [] t.pc = "ParseBlock" ->
         {Called(t, ParseBlock(t.w, t.b), AfterExecute(t)), Return(t, ErrStorage)}

\* Visor.InjectUserTransactionTx: user constraints, then soft and hard
\* constraints under the user policy, then the pool
InjectUserVerified(d, h, e) ==
  IF e # Nil THEN [known |-> FALSE, softErr |-> Nil, err |-> e, db |-> d]
  ELSE [InjectTransaction(d, h, UserVerifyTxn) EXCEPT !.softErr = Nil]

\* an InjectUserTransactionTx that goes to the pool after the user constraints
InjectUserTransactionTx_NoPrecheck(d, h) ==
  IF VerifySingleTxnUserConstraints(h) # Nil
  THEN [known |-> FALSE, softErr |-> Nil, err |-> ErrUser, db |-> d]
  ELSE [InjectTransaction(d, h, UserVerifyTxn) EXCEPT !.softErr = Nil]

\* an InjectUserTransactionTx that does not pass on what the pool said of
\* the transaction being known
InjectUserTransactionTx_Unknown(d, h) ==
  IF VerifySingleTxnUserConstraints(h) # Nil
  THEN [known |-> FALSE, softErr |-> Nil, err |-> ErrUser, db |-> d]
  ELSE [InjectUserVerified(d, h, VerifySingleTxnSoftHardConstraints(d, h, UserVerifyTxn))
          EXCEPT !.known = FALSE]

InjectUserTransactionTx(d, h) ==
  IF VerifySingleTxnUserConstraints(h) # Nil
  THEN [known |-> FALSE, softErr |-> Nil, err |-> ErrUser, db |-> d]
  ELSE InjectUserVerified(d, h, VerifySingleTxnSoftHardConstraints(d, h, UserVerifyTxn))

(***************************************************************************)
(* Verification of a transaction for a caller.                             *)
(***************************************************************************)
ErrNoPreviousBlock == "VerifyTxnVerbose: previous block not found"

\* what VerifyTxnVerbose returns: the inputs it could query, whether the
\* transaction is confirmed, and the error
Verbose(e, confirmed, inputs) == [err |-> e, confirmed |-> confirmed, inputs |-> inputs]

\* the inputs are unspent: the transaction is verified against the head with
\* the user policy, user constraints first, then soft, then hard; the inputs
\* are returned also when the verification fails
VerifyUnspent(d, h) ==
  Verbose(IF VerifySingleTxnUserConstraints(h) # Nil THEN VerifySingleTxnUserConstraints(h)
          ELSE IF VerifySingleTxnSoftConstraints(d, h, UserVerifyTxn) # Nil
               THEN VerifySingleTxnSoftConstraints(d, h, UserVerifyTxn)
          ELSE VerifySingleTxnHardConstraints(d, h),
          FALSE,
          IF TxnBody[h].In # <<>> /\ HeadTime(d) # 0 THEN Inputs(h) ELSE {})

\* history.GetUxOuts: the outputs among ids the history holds
GetUxOuts(hist, ids) == {o \in hist.outputs : o.Hash \in ids}

\* the history holds the transaction in block seq: it is confirmed, the time
\* for the fees is that of the block before (0 for the genesis block), and
\* no constraint is verified
VerifyConfirmed(d, h, seq) ==
  IF seq = 0 THEN Verbose(Nil, TRUE, {})
  ELSE IF GetSignedBlockBySeq(d, seq - 1) = NoBlock THEN Verbose(ErrNoPreviousBlock, TRUE, {})
  ELSE Verbose(Nil, TRUE,
               IF GetSignedBlockBySeq(d, seq - 1).Time # 0
               THEN {o.Hash : o \in GetUxOuts(d.history, Inputs(h))} ELSE {})

\* an input is not unspent: the inputs are taken from the history, and the
\* transaction is looked up there; when it is not there historyTxn is nil
\* and reading historyTxn.BlockSeq faults
VerifySpent(d, h) ==
  IF GetUxOuts(d.history, Inputs(h)) = {} THEN Verbose(ErrHard, FALSE, {})
  ELSE IF GetTransaction(d.history, h) = {} THEN Verbose(ErrPanic, FALSE, {})
  ELSE VerifyConfirmed(d, h, (CHOOSE t \in GetTransaction(d.history, h) : TRUE).BlockSeq)

\* Visor.VerifyTxnVerbose
VerifyTxnVerbose(d, h) ==
  IF GetArrayOk(d, TxnBody[h].In) THEN VerifyUnspent(d, h) ELSE VerifySpent(d, h)

(***************************************************************************)
(* Queries of blocks.                                                      *)
(***************************************************************************)
\* the blocks of sequences from, from + 1, ..., n of them; a block that is
\* not there is dereferenced and the call panics
BlocksFrom(d, from, n) ==
  IF \E j \in 0..(n - 1) : GetSignedBlockBySeq(d, (from + j) % (MaxUint64 + 1)) = NoBlock
  THEN [err |-> ErrPanic, blocks |-> <<>>]
  ELSE [err |-> Nil,
        blocks |-> [k \in 1..n |-> GetSignedBlockBySeq(d, (from + k - 1) % (MaxUint64 + 1))]]

\* a GetSignedBlocksSince that does not look at how many blocks there are
GetSignedBlocksSince_NoAvail(d, seq, ct) ==
  IF ct = 0 THEN [err |-> Nil, blocks |-> <<>>]
  ELSE BlocksFrom(d, (seq + 1) % (MaxUint64 + 1), ct)

\* a GetSignedBlocksSince that starts at the block of sequence seq
GetSignedBlocksSince_FromSeq(d, seq, ct) ==
  LET avail == IF HeadSeq(d) > seq THEN HeadSeq(d) - seq ELSE 0
      n == IF avail < ct THEN avail ELSE ct
  IN  IF n = 0 THEN [err |-> Nil, blocks |-> <<>>]
      ELSE BlocksFrom(d, seq, n)

\* Visor.GetSignedBlocksSince: at most ct blocks after the block of sequence
\* seq, no more than the head has
GetSignedBlocksSince(d, seq, ct) ==
  LET avail == IF HeadSeq(d) > seq THEN HeadSeq(d) - seq ELSE 0
      n == IF avail < ct THEN avail ELSE ct
  IN  IF n = 0 THEN [err |-> Nil, blocks |-> <<>>]
      ELSE BlocksFrom(d, (seq + 1) % (MaxUint64 + 1), n)

(***************************************************************************)
(* Queries of transactions.                                                *)
(***************************************************************************)
ErrEmptyChain == "blockchain is empty but history has transactions"
ErrNoBlockInSeq == "found no block in seq"
ErrHeadEarlier == "blockchain head seq is earlier than history txn seq"

\* the transaction is not known: (nil, nil)
NoTransaction ==
  [err |-> Nil, found |-> FALSE, Confirmed |-> FALSE, Height |-> 0, BlockSeq |-> 0, Time |-> 0]

\* NewUnconfirmedTransactionStatus
UnconfirmedTransaction == [NoTransaction EXCEPT !.found = TRUE]

\* NewConfirmedTransactionStatus(confirms, blockSeq), with the block's time
ConfirmedTransaction(confirms, blockSeq, time) ==
  [err |-> Nil, found |-> TRUE, Confirmed |-> TRUE, Height |-> confirms, BlockSeq |-> blockSeq,
   Time |-> time]

\* a count of confirmations without the block of the transaction itself
Confirms_NoPlusOne(headSeq, blockSeq) == (headSeq - blockSeq) % (MaxUint64 + 1)

\* confirms := headSeq - htxn.BlockSeq + 1, in uint64
Confirms(headSeq, blockSeq) == (headSeq - blockSeq + 1) % (MaxUint64 + 1)

\* getTransaction for a transaction of the history, recorded in block seq
HistoryTransaction(d, seq) ==
  IF ~HeadSeqOk(d) THEN [NoTransaction EXCEPT !.err = ErrEmptyChain]
  ELSE IF GetSignedBlockBySeq(d, seq) = NoBlock THEN [NoTransaction EXCEPT !.err = ErrNoBlockInSeq]
  ELSE IF HeadSeq(d) < seq THEN [NoTransaction EXCEPT !.err = ErrHeadEarlier]
  ELSE ConfirmedTransaction(Confirms(HeadSeq(d), seq), seq, GetSignedBlockBySeq(d, seq).Time)

\* Visor.getTransaction: the pool first, then the history
getTransaction(d, h) ==
  IF h \in PoolHashes(d) THEN UnconfirmedTransaction
  ELSE IF GetTransaction(d.history, h) = {} THEN NoTransaction
  ELSE HistoryTransaction(d, (CHOOSE t \in GetTransaction(d.history, h) : TRUE).BlockSeq)

\* Visor.GetTransaction: the report of getTransaction, or the error of a
\* read of the store that fails
GetTransactionResults(d, h) ==
  {getTransaction(d, h), [NoTransaction EXCEPT !.err = ErrStorage]}

(***************************************************************************)
(* What the callers submit.                                                *)
(***************************************************************************)
\* the block that follows the head of d, with the given body
NextBlock(d, body) ==
  IF HeadSeqOk(d)
  THEN [BkSeq |-> HeadSeq(d) + 1, Time |-> HeadTime(d) + 1, PrevHash |-> HashHeader(HeadBlock(d)),
        Transactions |-> body, Sig |-> BlockchainPubkey]
  ELSE [NewGenesisBlock EXCEPT !.Transactions = body, !.Sig = BlockchainPubkey]

Bodies(d) ==
  IF HeadSeqOk(d)
  THEN {<<h>> : h \in UserTxns} \cup {<<"A", "B">>, <<"A", "C">>, <<"A", "A">>, <<>>, <<"K">>}
  ELSE {<<"G">>, <<"A">>}

\* one body the head accepts, when there is one
GoodBodies(d) == {body \in Bodies(d) : ExecuteBlock(d, NextBlock(d, body)).err = Nil}

\* the blocks a peer sends: well-formed ones with every body, and for the
\* bodies the head accepts one block with each fault of the header
CandidateBlocks(d) ==
  {NextBlock(d, body) : body \in Bodies(d)}
  \cup {[NextBlock(d, body) EXCEPT !.Sig = OtherKey] : body \in GoodBodies(d)}
  \cup {[NextBlock(d, body) EXCEPT !.BkSeq = @ + 1] : body \in GoodBodies(d)}
  \cup {[NextBlock(d, body) EXCEPT !.BkSeq = HeadSeq(d)] : body \in {x \in GoodBodies(d) : HeadSeqOk(d)}}
  \cup {[NextBlock(d, body) EXCEPT !.PrevHash = BadHash] : body \in {x \in GoodBodies(d) : HeadSeqOk(d)}}
  \cup {[NextBlock(d, body) EXCEPT !.Time = HeadTime(d)] : body \in {x \in GoodBodies(d) : HeadSeqOk(d)}}

\* the addresses asked for in a balance query
AddrLists == {<<>>, <<"g">>, <<"x">>, <<"y">>, <<"g", "x", "y">>}

\* the addresses asked for in AddressesActivity
ActivityAddrLists ==
  {<<>>, <<"x", "y">>, <<"y", "x">>, <<"g", "x", "y">>, <<"x", "x">>, <<"x", ForeignAddress>>}

\* the hashes asked for in GetTransaction: D is in no block and in no pool
QueriedTxns == {"G", "A", "B", "D"}

\* the outputs handed to AddressBalances: those of the addresses, confirmed
\* only or with the ones the pool would create
OutputsOf(S, addrs) == {ux \in S : ux.Address \in Range(addrs)}
CandidateAuxs(d) ==
  {OutputsOf(d.unspent, addrs) : addrs \in AddrLists}
  \cup {OutputsOf(d.unspent \cup PoolOutputs(d), addrs) : addrs \in AddrLists}

\* the candidate lists handed to CreateBlockFromTxns
CandidateTxnLists ==
  {<<>>, <<"A">>, <<"D">>, <<"E">>, <<"A", "B">>, <<"B", "A">>, <<"C", "E">>, <<"E", "C">>,
   <<"M", "N", "L">>, <<"N", "L", "M">>, <<"Q", "P", "N">>, <<"L", "Q">>, <<"N", "M">>}

(***************************************************************************)
(* The operations.                                                         *)
(***************************************************************************)
Init ==
  /\ Config \in {[IsBlockPublisher |-> TRUE, GenesisSignature |-> BlockchainPubkey,
                  MaxBlockTransactionsSize |-> MaxBlockTransactionsSize],
                 [IsBlockPublisher |-> FALSE, GenesisSignature |-> BlockchainPubkey,
                  MaxBlockTransactionsSize |-> SmallBlockTransactionsSize],
                 [IsBlockPublisher |-> FALSE, GenesisSignature |-> OtherKey,
                  MaxBlockTransactionsSize |-> MaxBlockTransactionsSize]}
  /\ db = EmptyDB
  /\ tx = Idle

\* Visor.Init
VisorInit ==
  /\ tx.pc = "idle"
  /\ tx' = Begin("Init", "maybeCreateGenesisBlock")
  /\ UNCHANGED <<Config, db>>

StepMaybeCreateGenesisBlock ==
  /\ tx.pc = "maybeCreateGenesisBlock"
  /\ tx' = maybeCreateGenesisBlock(tx)
  /\ UNCHANGED <<Config, db>>

\* Init's sweep of the pool, after the genesis block
StepRemoveInvalid ==
  /\ tx.pc = "RemoveInvalid"
  /\ tx' = Returned(tx, RemoveInvalid(tx.w))
  /\ UNCHANGED <<Config, db>>

\* Visor.ExecuteSignedBlock
ExecuteSignedBlock ==
  /\ tx.pc = "idle"
  /\ Len(db.blockchain) < MaxBlocks
  /\ \E b \in CandidateBlocks(db) :
       tx' = [Begin("ExecuteSignedBlock", "VerifySignature") EXCEPT !.b = b]
  /\ UNCHANGED <<Config, db>>

\* Visor.ExecuteSignedBlockUnsafe
ExecuteSignedBlockUnsafe ==
  /\ tx.pc = "idle"
  /\ Len(db.blockchain) < MaxBlocks
  /\ \E b \in CandidateBlocks(db) :
       tx' = [Begin("ExecuteSignedBlockUnsafe", "ExecuteBlock") EXCEPT !.b = b]
  /\ UNCHANGED <<Config, db>>

\* Visor.CreateAndExecuteBlock
CreateAndExecuteBlock ==
  /\ tx.pc = "idle"
  /\ HeadSeqOk(db)
  /\ Len(db.blockchain) < MaxBlocks
  /\ tx' = [Begin("CreateAndExecuteBlock", "createBlock") EXCEPT !.when = HeadTime(db) + 1]
  /\ UNCHANGED <<Config, db>>

StepCreateBlock ==
  /\ tx.pc = "createBlock"
  /\ \E r \in createBlockResults(tx.w, tx.when) : tx' = Created(tx, r)
  /\ UNCHANGED <<Config, db>>

StepExecuteSignedBlock ==
  /\ tx.pc = "VerifySignature"
  /\ tx' = executeSignedBlock(tx)
  /\ UNCHANGED <<Config, db>>

StepExecuteSignedBlockUnsafe ==
  /\ tx.pc \in {"ExecuteBlock", "RemoveTransactions", "ParseBlock"}
  /\ tx' \in executeSignedBlockUnsafe(tx)
  /\ UNCHANGED <<Config, db>>

\* Visor.CreateBlockFromTxns
CreateBlockFromTxns ==
  /\ tx.pc = "idle"
  /\ HeadSeqOk(db)
  /\ \E txns \in CandidateTxnLists :
       \E r \in createBlockFromTxnsResults(db, txns, HeadTime(db) + 1) :
         tx' = Built([Begin("CreateBlockFromTxns", "return") EXCEPT !.txns = txns], r)
  /\ UNCHANGED <<Config, db>>

\* an InjectForeignTransaction that returns a soft violation as its error
SoftFatal(r) == IF r.softErr # Nil THEN [r EXCEPT !.err = r.softErr] ELSE r

InjectForeignTransaction_SoftFatal ==
  /\ tx.pc = "idle"
  /\ HeadSeqOk(db)
  /\ \E h \in UserTxns :
       tx' = Returned([Begin("InjectForeignTransaction", "return") EXCEPT !.txn = h],
                      SoftFatal(InjectTransaction(db, h, UnconfirmedVerifyTxn)))
  /\ UNCHANGED <<Config, db>>

\* Visor.InjectForeignTransaction
InjectForeignTransaction ==
  /\ tx.pc = "idle"
  /\ HeadSeqOk(db)
  /\ \E h \in UserTxns :
       tx' = Returned([Begin("InjectForeignTransaction", "return") EXCEPT !.txn = h],
                      InjectTransaction(db, h, UnconfirmedVerifyTxn))
  /\ UNCHANGED <<Config, db>>

\* Visor.InjectUserTransaction
InjectUserTransaction ==
  /\ tx.pc = "idle"
  /\ HeadSeqOk(db)
  /\ \E h \in UserTxns :
       tx' = Returned([Begin("InjectUserTransaction", "return") EXCEPT !.txn = h],
                      InjectUserTransactionTx(db, h))
  /\ UNCHANGED <<Config, db>>

\* a RefreshUnconfirmed over a pool that removes what violates a hard
\* constraint
RefreshUnconfirmed_Removing ==
  /\ tx.pc = "idle"
  /\ HeadSeqOk(db)
  /\ tx' = Returned(Begin("RefreshUnconfirmed", "return"),
                    Refresh_Removing(db, UnconfirmedVerifyTxn))
  /\ UNCHANGED <<Config, db>>

\* Visor.RefreshUnconfirmed
RefreshUnconfirmed ==
  /\ tx.pc = "idle"
  /\ HeadSeqOk(db)
  /\ tx' = Returned(Begin("RefreshUnconfirmed", "return"), Refresh(db, UnconfirmedVerifyTxn))
  /\ UNCHANGED <<Config, db>>

\* a RemoveInvalidUnconfirmed that sweeps by the recorded validity
RemoveInvalidUnconfirmed_Flagged ==
  /\ tx.pc = "idle"
  /\ HeadSeqOk(db)
  /\ tx' = Returned(Begin("RemoveInvalidUnconfirmed", "return"), RemoveInvalid_Flagged(db))
  /\ UNCHANGED <<Config, db>>

\* Visor.RemoveInvalidUnconfirmed
RemoveInvalidUnconfirmed ==
  /\ tx.pc = "idle"
  /\ HeadSeqOk(db)
  /\ tx' = Returned(Begin("RemoveInvalidUnconfirmed", "return"), RemoveInvalid(db))
  /\ UNCHANGED <<Config, db>>

\* a read-only call has returned r for the argument arg
Viewed(op, arg, r) ==
  [Begin(op, "return") EXCEPT !.arg = arg, !.err = r.err, !.res = r]

\* the sequences and the counts asked of GetSignedBlocksSince
SinceSeqs == {0, 1, 3, MaxUint64}
SinceCounts == {0, 2, MaxUint64}

\* Visor.GetSignedBlocksSince
ViewGetSignedBlocksSince ==
  /\ tx.pc = "idle"
  /\ HeadSeqOk(db)
  /\ \E seq \in SinceSeqs, ct \in SinceCounts :
       tx' = Viewed("GetSignedBlocksSince", <<seq, ct>>, GetSignedBlocksSince(db, seq, ct))
  /\ UNCHANGED <<Config, db>>

\* the transactions a caller has verified
VerifiedTxns == {"A", "B", "C", "F", "G"}

\* Visor.VerifyTxnVerbose
ViewVerifyTxnVerbose ==
  /\ tx.pc = "idle"
  /\ HeadSeqOk(db)
  /\ \E h \in VerifiedTxns :
       tx' = [Viewed("VerifyTxnVerbose", <<h>>, VerifyTxnVerbose(db, h)) EXCEPT !.txn = h]
  /\ UNCHANGED <<Config, db>>

\* Visor.GetUnspentOutputsSummary
ViewGetUnspentOutputsSummary ==
  /\ tx.pc = "idle"
  /\ HeadSeqOk(db)
  /\ tx' = Viewed("GetUnspentOutputsSummary", <<>>, GetUnspentOutputsSummary(db))
  /\ UNCHANGED <<Config, db>>

\* a db.View that hands the reader the working copy of the db.Update in
\* flight
Snapshot_Dirty(t, d) == t.w

\* a db.View whose reads of the unspent outputs see the db.Update in flight
Snapshot_Mixed(t, d) == [d EXCEPT !.unspent = t.w.unspent]

\* db.View with a db.Update in flight: the reader is handed the committed
\* store
Snapshot(t, d) == d

\* the queries of a second caller, each in one db.View
ConcurrentQueries(d) ==
  {[q |-> "GetBalanceOfAddresses", r |-> GetBalanceOfAddresses(d, <<"g", "x", "y">>)],
   [q |-> "GetUnspentOutputsSummary", r |-> GetUnspentOutputsSummary(d)]}

\* the operations that change the pool alone
PoolOps ==
  {"InjectForeignTransaction", "InjectUserTransaction", "RefreshUnconfirmed",
   "RemoveInvalidUnconfirmed"}

\* the points of the read-write operations at which the second caller
\* queries: in the middle of a block execution, when the block is in the
\* working copy and the history and the pool are still to follow, and when an
\* operation of the pool has returned and its db.Update has not ended
InFlight(t) ==
  \/ /\ t.op \in {"Init", "ExecuteSignedBlock", "CreateAndExecuteBlock"}
     /\ t.pc \in {"ParseBlock", "RemoveTransactions", "RemoveInvalid"}
  \/ t.op \in PoolOps /\ t.pc = "return"

\* a second caller runs a query while the db.Update of the first is under
\* way; tx.res keeps what the query returned
ConcurrentView ==
  /\ InFlight(tx)
  /\ HeadSeqOk(db)
  /\ tx.res = <<>>
  /\ \E r \in ConcurrentQueries(Snapshot(tx, db)) : tx' = [tx EXCEPT !.res = r]
  /\ UNCHANGED <<Config, db>>

\* Visor.GetBalanceOfAddresses
ViewGetBalanceOfAddresses ==
  /\ tx.pc = "idle"
  /\ HeadSeqOk(db)
  /\ \E addrs \in AddrLists :
       tx' = Viewed("GetBalanceOfAddresses", addrs, GetBalanceOfAddresses(db, addrs))
  /\ UNCHANGED <<Config, db>>

\* Visor.AddressBalances
CallAddressBalances ==
  /\ tx.pc = "idle"
  /\ HeadSeqOk(db)
  /\ \E auxs \in CandidateAuxs(db) :
       tx' = Viewed("AddressBalances", auxs, AddressBalances(HeadTime(db), auxs))
  /\ UNCHANGED <<Config, db>>

\* the balance handler of the API
BalanceHandler ==
  /\ tx.pc = "idle"
  /\ HeadSeqOk(db)
  /\ \E addrs \in AddrLists \ {<<>>} :
       tx' = Viewed("balanceHandler", addrs, balanceHandler(db, addrs))
  /\ UNCHANGED <<Config, db>>

\* TransactionsFinder.AddressesActivity
ViewAddressesActivity ==
  /\ tx.pc = "idle"
  /\ HeadSeqOk(db)
  /\ \E addrs \in ActivityAddrLists :
       \E r \in AddressesActivity(db, addrs) :
         tx' = Viewed("AddressesActivity", addrs, r)
  /\ UNCHANGED <<Config, db>>

\* Visor.VerifyBlock: the verdict of Blockchain.VerifyBlock on a block a
\* peer sent, read in a db.View
ViewVerifyBlock ==
  /\ tx.pc = "idle"
  /\ HeadSeqOk(db)
  /\ \E b \in CandidateBlocks(db) :
       tx' = [Viewed("VerifyBlock", <<>>, [err |-> VerifyBlock(db, b)]) EXCEPT !.b = b]
  /\ UNCHANGED <<Config, db>>

\* Visor.GetTransaction
ViewGetTransaction ==
  /\ tx.pc = "idle"
  /\ HeadSeqOk(db)
  /\ \E h \in QueriedTxns :
       \E r \in GetTransactionResults(db, h) :
         tx' = Viewed("GetTransaction", <<h>>, r)
  /\ UNCHANGED <<Config, db>>

\* the process stops and the store stays; at the next start the history
\* may lack the bookkeeping of its parsed height, as after a change of its
\* tables
Stop ==
  /\ tx.pc = "idle"
  /\ \E lost \in BOOLEAN :
       db' = IF lost THEN [db EXCEPT !.history.parsedBlockSeq = 0 - 1] ELSE db
  /\ tx' = Down
  /\ UNCHANGED Config

\* New: the transaction "build unspent indexes and init history"
New ==
  /\ tx.pc = "down"
  /\ tx' = Begin("New", "initHistory")
  /\ UNCHANGED <<Config, db>>

StepInitHistory ==
  /\ tx.pc = "initHistory"
  /\ tx' = initHistory(tx)
  /\ UNCHANGED <<Config, db>>

\* one turn of the loop, or a failure of the store
StepParseHistoryTo ==
  /\ tx.pc = "parseHistoryTo"
  /\ \/ tx' = parseHistoryTo(tx)
     \/ tx' = Return(tx, ErrStoreDown)
  /\ UNCHANGED <<Config, db>>

\* the process is killed during the start: the transaction is not committed
Interrupt ==
  /\ tx.op = "New"
  /\ tx.pc \in {"initHistory", "parseHistoryTo", "return"}
  /\ tx' = Down
  /\ UNCHANGED <<Config, db>>

\* the end of db.Update: the handler has returned; New fails when its
\* transaction fails and the process does not start
Update ==
  /\ tx.pc = "return"
  /\ db' = Commit(tx, db)
  /\ tx' = IF tx.op = "New" /\ tx.err # Nil THEN Down ELSE Idle
  /\ UNCHANGED Config

Next ==
  \/ VisorInit
  \/ StepMaybeCreateGenesisBlock
  \/ StepRemoveInvalid
  \/ ExecuteSignedBlock
  \/ ExecuteSignedBlockUnsafe
  \/ CreateAndExecuteBlock
  \/ StepCreateBlock
  \/ StepExecuteSignedBlock
  \/ StepExecuteSignedBlockUnsafe
  \/ CreateBlockFromTxns
  \/ InjectForeignTransaction
  \/ InjectUserTransaction
  \/ RefreshUnconfirmed
  \/ RemoveInvalidUnconfirmed
  \/ ViewGetBalanceOfAddresses
  \/ CallAddressBalances
  \/ BalanceHandler
  \/ ViewAddressesActivity
  \/ ViewGetTransaction
  \/ ViewVerifyBlock
  \/ ViewGetUnspentOutputsSummary
  \/ ViewGetSignedBlocksSince
  \/ ViewVerifyTxnVerbose
  \/ ConcurrentView
  \/ Stop
  \/ New
  \/ StepInitHistory
  \/ StepParseHistoryTo
  \/ Interrupt
  \/ Update

Spec == Init /\ [][Next]_vars

(***************************************************************************)
(* A publisher node that creates block after block.                        *)
(***************************************************************************)
PublisherInit == Init /\ Config.IsBlockPublisher

\* the node starts, callers inject transactions and sweep the pool, and
\* the publisher creates and executes blocks
PublisherNext ==
  \/ VisorInit
  \/ StepMaybeCreateGenesisBlock
  \/ StepRemoveInvalid
  \/ InjectForeignTransaction
  \/ InjectUserTransaction
  \/ RefreshUnconfirmed
  \/ RemoveInvalidUnconfirmed
  \/ CreateAndExecuteBlock
  \/ StepCreateBlock
  \/ StepExecuteSignedBlock
  \/ StepExecuteSignedBlockUnsafe
  \/ Update

\* createBlock has returned what it returns when the store does not fail:
\* a block, which goes on to executeSignedBlock, or one of its own errors
CreatedStored ==
  /\ tx.op = "CreateAndExecuteBlock"
  /\ \/ tx.pc = "VerifySignature"
     \/ tx.pc = "return" /\ tx.err \in {ErrNoTxns, ErrBlock, ErrPanic}

\* CreateAndExecuteBlock is invoked again and again; a handler that has
\* started goes on to its return and db.Update ends; the store does not
\* fail in every block creation nor in every execution.  The two
\* conditions of StepCreateBlock are its weak fairness and the strong
\* fairness of its step without a failure of the store, stated on the
\* position of the handler.
PublisherFairness ==
  /\ SF_vars(CreateAndExecuteBlock)
  /\ []<>(tx.pc # "createBlock")
  /\ ([]<>(tx.pc = "createBlock") => []<>CreatedStored)
  /\ WF_vars(StepExecuteSignedBlock)
  /\ \A pc \in {"ExecuteBlock", "RemoveTransactions", "ParseBlock"} :
       SF_vars(StepExecuteSignedBlockUnsafe /\ tx.pc = pc /\ tx'.err # ErrStorage)
  /\ WF_vars(StepMaybeCreateGenesisBlock)
  /\ WF_vars(StepRemoveInvalid)
  /\ WF_vars(Update)

PublisherSpec == PublisherInit /\ [][PublisherNext]_vars /\ PublisherFairness

(***************************************************************************)
(* Properties.                                                             *)
(***************************************************************************)
\* the operations that execute a block
ExecOps == {"Init", "ExecuteSignedBlock", "ExecuteSignedBlockUnsafe", "CreateAndExecuteBlock"}

\* the handler in flight has returned and holds a block it was to execute
Attempted == tx.pc = "return" /\ tx.op \in ExecOps /\ tx.b # NoBlock

BlockInputSet(sb) == Range(BlockInputs(sb.Transactions))

\* C1: when a block is executed the unspent set becomes the old set minus
\* the block's inputs plus the block's outputs, every input having been
\* unspent; when an input of the block is absent the execution fails and
\* nothing is applied; the unspent set changes in no other way.
C1_UnspentAfterBlock ==
  [][/\ Len(db'.blockchain) # Len(db.blockchain) =>
          /\ db'.blockchain = Append(db.blockchain, tx.b)
          /\ BlockInputSet(tx.b) \subseteq UnspentHashes(db)
          /\ db'.unspent = {ux \in db.unspent : ux.Hash \notin BlockInputSet(tx.b)}
                             \cup BlockOutputs(tx.b)
     /\ (Attempted /\ ~(BlockInputSet(tx.b) \subseteq UnspentHashes(db))) =>
          (tx.err # Nil /\ db' = db)
     /\ Len(db'.blockchain) = Len(db.blockchain) => db'.unspent = db.unspent
    ]_vars

\* a block spending an output of the genesis block has been executed, and
\* an execution of a block whose input is gone has failed
C1_Witness ==
  /\ Len(db.blockchain) = 2
  /\ HeadBlock(db).Transactions = <<"A">>
  /\ UnspentHashes(db) = {UxId("A", 1), UxId("A", 2)}
  /\ Attempted /\ tx.b.Transactions = <<"B">> /\ tx.err # Nil

RECURSIVE ChainTxns(_)
ChainTxns(chain) ==
  IF chain = <<>> THEN <<>> ELSE Head(chain).Transactions \o ChainTxns(Tail(chain))

\* every input spent by the executed blocks, in order
SpentInputs(d) == BlockInputs(ChainTxns(d.blockchain))

\* C2: no output identifier is an input more than once across the executed
\* blocks, within one block or across blocks.
C2_NoDoubleSpend ==
  \A i, j \in DOMAIN SpentInputs(db) : i # j => SpentInputs(db)[i] # SpentInputs(db)[j]

\* two pooled transactions spent the same output: one was executed, the
\* other is still pooled and a block carrying it has been refused
C2_Witness ==
  /\ "A" \in ConfirmedHashes(db)
  /\ "B" \in PoolHashes(db)
  /\ Attempted /\ "B" \in Range(tx.b.Transactions) /\ tx.err # Nil

\* C3: with a block in the chain the head sequence number is the number of
\* executed blocks minus one; the chain changes only by a successful
\* execution, which appends one block and raises the head by one.
C3_HeadSeq ==
  [][/\ HeadSeqOk(db') => HeadSeq(db') = Len(db'.blockchain) - 1
     /\ db'.blockchain # db.blockchain =>
          /\ tx.pc = "return" /\ tx.op \in ExecOps /\ tx.err = Nil
          /\ Len(db'.blockchain) = Len(db.blockchain) + 1
          /\ SubSeq(db'.blockchain, 1, Len(db.blockchain)) = db.blockchain
          /\ HeadSeqOk(db) => HeadSeq(db') = HeadSeq(db) + 1
     /\ (tx.pc = "return" /\ (tx.op \notin ExecOps \/ tx.err # Nil)) =>
          db'.blockchain = db.blockchain
    ]_vars

\* the head is at 2 and an injection, with the pool changed, returns
C3_Witness ==
  /\ HeadSeqOk(db) /\ HeadSeq(db) = 2
  /\ tx.pc = "return" /\ tx.op = "InjectForeignTransaction" /\ tx.w # db

\* the execution in flight fails: the handler returned an error, or the
\* signature or the chain refuse the block
ExecutionFails ==
  \/ tx.err # Nil
  \/ /\ tx.b # NoBlock
     /\ \/ tx.op # "ExecuteSignedBlockUnsafe" /\ ~VerifySignature(tx.b, BlockchainPubkey)
        \/ ExecuteBlock(db, tx.b).err # Nil

\* C4: an execution that fails at the signature, in the chain, at the
\* removal from the pool or in the history leaves the committed chain,
\* head, unspent set, pool and history as they were.
C4_FailedExecutionRollsBack ==
  [][(tx.pc = "return" /\ tx.op \in ExecOps /\ ExecutionFails) => db' = db]_vars

\* the chain executed the block in the working copy and the removal from
\* the pool then failed
C4_Witness ==
  /\ Attempted /\ tx.err = ErrStorage
  /\ Len(tx.w.blockchain) = Len(db.blockchain) + 1
  /\ tx.w.unspent # db.unspent
  /\ Range(tx.b.Transactions) \cap PoolHashes(tx.w) # {}

\* C5: in every committed state no transaction is both in the pool and in
\* an executed block; a successful execution takes out of the pool the
\* transactions of its block and no other.
C5_PoolDisjointFromChain ==
  /\ PoolHashes(db) \cap ConfirmedHashes(db) = {}
  /\ (Attempted /\ tx.err = Nil) =>
       /\ PoolHashes(tx.w) = PoolHashes(db) \ Range(tx.b.Transactions)
       /\ PoolHashes(tx.w) \cap ConfirmedHashes(tx.w) = {}

\* in the working copy the block is executed while its transaction is still
\* pooled; the committed state does not show the block
C5_Witness ==
  /\ tx.pc = "RemoveTransactions"
  /\ Range(tx.b.Transactions) \cap PoolHashes(tx.w) # {}
  /\ Range(tx.b.Transactions) \subseteq ConfirmedHashes(tx.w)
  /\ Range(tx.b.Transactions) \cap ConfirmedHashes(db) = {}

\* C6: ExecuteSignedBlock applies a block only when its signature verifies
\* against the publisher's key, and otherwise returns the signature error
\* and changes nothing; ExecuteSignedBlockUnsafe leaves out only that
\* check: a block the chain refuses is refused by it too.
C6_SignatureGate ==
  [][/\ (Attempted /\ tx.op = "ExecuteSignedBlock"
           /\ ~VerifySignature(tx.b, BlockchainPubkey)) =>
          (tx.err = ErrSig /\ tx.w = db /\ db' = db)
     /\ (db'.blockchain # db.blockchain /\ tx.op # "ExecuteSignedBlockUnsafe") =>
          VerifySignature(HeadBlock(db'), BlockchainPubkey)
     /\ (Attempted /\ tx.op = "ExecuteSignedBlockUnsafe"
           /\ ExecuteBlock(db, tx.b).err # Nil) =>
          (tx.err # Nil /\ db' = db)
    ]_vars

\* the head was executed without the publisher's signature, by
\* ExecuteSignedBlockUnsafe, and ExecuteSignedBlock refuses such a block
C6_Witness ==
  /\ Len(db.blockchain) >= 2
  /\ ~VerifySignature(HeadBlock(db), BlockchainPubkey)
  /\ Attempted /\ tx.op = "ExecuteSignedBlock" /\ tx.err = ErrSig
  /\ ExecuteBlock(db, tx.b).err = Nil

\* the sequence number the chain accepts next
ExpectedSeq(d) == IF HeadSeqOk(d) THEN HeadSeq(d) + 1 ELSE 0

\* C7: the executed blocks carry the sequence numbers 0, 1, 2, ... in
\* order; a block whose number is not the head's plus one (0 on an empty
\* chain) is refused and nothing changes; the transactions of block N+1
\* are valid against the unspent set block N left.
C7_SequenceOrder ==
  [][/\ \A i \in DOMAIN db'.blockchain : db'.blockchain[i].BkSeq = i - 1
     /\ (Attempted /\ tx.b.BkSeq # ExpectedSeq(db)) => (tx.err # Nil /\ db' = db)
     /\ (db'.blockchain # db.blockchain /\ HeadSeqOk(db)) =>
          \A h \in Range(HeadBlock(db').Transactions) :
             VerifySingleTxnHardConstraints(db, h) = Nil
    ]_vars

\* a block that skips a sequence number has been refused on a chain of two
C7_Witness ==
  /\ Len(db.blockchain) = 2
  /\ Attempted /\ tx.b.BkSeq = HeadSeq(db) + 2 /\ tx.err # Nil

InjectOps == {"InjectForeignTransaction", "InjectUserTransaction"}

\* an injection of a transaction that is in the pool has returned
Reinjected == tx.pc = "return" /\ tx.op \in InjectOps /\ tx.txn \in PoolHashes(db)

\* C8 as stated: an injection of a transaction that is in the pool reports
\* it known and leaves the pool with the same transactions and size.
C8_Original ==
  Reinjected =>
    /\ tx.known /\ tx.err = Nil
    /\ PoolHashes(tx.w) = PoolHashes(db)
    /\ Cardinality(tx.w.unconfirmed) = Cardinality(db.unconfirmed)

\* C8: an injection of a transaction that is in the pool leaves the pool
\* with the same transactions and size; it reports the transaction known
\* when it returns no error, and when the transaction now violates a
\* constraint checked before the pool's lookup it returns that error, with
\* known false and the pool untouched.
C8_ReinjectionKnown ==
  Reinjected =>
    /\ PoolHashes(tx.w) = PoolHashes(db)
    /\ Cardinality(tx.w.unconfirmed) = Cardinality(db.unconfirmed)
    /\ tx.known <=> (tx.err = Nil)
    /\ tx.err # Nil => tx.w = db

\* a pooled transaction is injected again and the injection returns an error
C8_Witness == Reinjected /\ tx.err # Nil /\ ~tx.known

\* the coins of an output are those its transaction gave it
CoinsOfOutput(id) == TxnBody[id[1]].Out[id[2]].Coins
CreatesCoins(h) ==
  /\ Len(TxnBody[h].In) > 0
  /\ SumSeq([i \in DOMAIN TxnBody[h].In |-> CoinsOfOutput(TxnBody[h].In[i])]) < CoinsOut(h)

\* C9: a transaction whose inputs hold fewer coins than its outputs is
\* refused as a hard violation by both injections and left out by block
\* building; it is never in the pool, in a built block or in an executed
\* block.
C9_NoCoinCreation ==
  /\ \A h \in PoolHashes(db) \cup PoolHashes(tx.w) : ~CreatesCoins(h)
  /\ \A h \in ConfirmedHashes(db) \cup ConfirmedHashes(tx.w) : ~CreatesCoins(h)
  /\ (tx.pc = "return" /\ tx.op \in InjectOps /\ CreatesCoins(tx.txn)) =>
       (tx.err = ErrHard /\ tx.w = db)
  /\ tx.op \in {"CreateBlockFromTxns", "CreateAndExecuteBlock"} =>
       \A h \in Range(tx.b.Transactions) : ~CreatesCoins(h)

\* the user injection has refused the transaction that makes 11 coins of 10
\* while its input is unspent and the pool holds a transaction
C9_Witness ==
  /\ tx.pc = "return" /\ tx.op = "InjectUserTransaction" /\ tx.txn = "D"
  /\ Inputs("D") \subseteq UnspentHashes(db)
  /\ PoolHashes(db) # {}
  /\ tx.err = ErrHard

\* C10: InjectUserTransaction checks the user constraints, then the hard
\* and soft constraints under the user policy, then injects; the first
\* violation is the error returned, the pool is not reached and stays as it
\* was; without a violation the transaction is in the pool.
C10_UserInjectionOrder ==
  (tx.pc = "return" /\ tx.op = "InjectUserTransaction") =>
    /\ VerifySingleTxnUserConstraints(tx.txn) # Nil => tx.err = ErrUser
    /\ (VerifySingleTxnUserConstraints(tx.txn) = Nil
          /\ VerifySingleTxnHardConstraints(db, tx.txn) # Nil) => tx.err = ErrHard
    /\ (VerifySingleTxnUserConstraints(tx.txn) = Nil
          /\ VerifySingleTxnHardConstraints(db, tx.txn) = Nil
          /\ VerifySingleTxnSoftConstraints(db, tx.txn, UserVerifyTxn) # Nil) => tx.err = ErrSoft
    /\ tx.err # Nil => (tx.w = db /\ ~tx.known)
    /\ tx.err = Nil =>
         /\ tx.txn \in PoolHashes(tx.w)
         /\ VerifySingleTxnUserConstraints(tx.txn) = Nil
         /\ VerifySingleTxnSoftHardConstraints(db, tx.txn, UserVerifyTxn) = Nil

\* a transaction that violates a user constraint and a hard constraint is
\* refused with the user error, the pool holding another transaction
C10_Witness ==
  /\ tx.pc = "return" /\ tx.op = "InjectUserTransaction" /\ tx.txn = "F"
  /\ VerifySingleTxnHardConstraints(db, "F") # Nil
  /\ PoolHashes(db) # {}
  /\ tx.err = ErrUser /\ tx.w = db

\* an injection through InjectForeignTransaction has returned
ForeignReturned == tx.pc = "return" /\ tx.op = "InjectForeignTransaction"

\* C11: InjectForeignTransaction of a transaction that passes the hard
\* constraints and violates a soft one puts it in the pool and returns the
\* soft violation with no error, and the commit keeps it pooled; one that
\* violates a hard constraint returns the error and leaves the pool as it
\* was.
C11_ForeignSoftAdvisory ==
  [][(ForeignReturned /\ tx'.pc = "idle") =>
       /\ VerifySingleTxnHardConstraints(db, tx.txn) # Nil =>
            (tx.err = ErrHard /\ tx.softErr = Nil /\ tx.w = db /\ db' = db)
       /\ VerifySingleTxnHardConstraints(db, tx.txn) = Nil =>
            /\ tx.err = Nil
            /\ tx.softErr = VerifySingleTxnSoftConstraints(db, tx.txn, UnconfirmedVerifyTxn)
            /\ PoolHashes(db') = PoolHashes(db) \cup {tx.txn}
            /\ [db' EXCEPT !.unconfirmed = db.unconfirmed] = db
     ]_vars

\* the oversize transaction E, valid against the head, has been injected:
\* it is pooled in the working copy and the soft violation is returned
C11_Witness ==
  /\ ForeignReturned /\ tx.txn = "E"
  /\ tx.err = Nil /\ tx.softErr = ErrSoft
  /\ "E" \in PoolHashes(tx.w) /\ "E" \notin PoolHashes(db)

(***************************************************************************)
(* Balance queries.                                                        *)
(***************************************************************************)
RECURSIVE TotalCoins(_)
TotalCoins(S) ==
  IF S = {} THEN 0 ELSE (CHOOSE x \in S : TRUE).Coins + TotalCoins(S \ {CHOOSE x \in S : TRUE})

RECURSIVE TotalHours(_, _)
TotalHours(S, t) ==
  IF S = {} THEN 0
  ELSE CoinHours(CHOOSE x \in S : TRUE, t) + TotalHours(S \ {CHOOSE x \in S : TRUE}, t)

BalanceReturned == tx.pc = "return" /\ tx.op = "GetBalanceOfAddresses" /\ tx.err = Nil

\* the confirmed outputs of the address
ConfirmedOf(addr) == {ux \in db.unspent : ux.Address = addr}

\* the confirmed outputs of the address no pooled transaction spends, and
\* the outputs the pooled transactions would create for it
ExpectedPredicted(addr) ==
  {ux \in ConfirmedOf(addr) : \A h \in PoolHashes(db) : ux.Hash \notin Range(TxnBody[h].In)}
  \cup {ux \in UNION {CreateUnspents(HeadSeq(db), HeadTime(db), h) : h \in PoolHashes(db)} :
          ux.Address = addr}

\* C12: a balance pair's Predicted is the total of the confirmed outputs of
\* the address minus those the pooled transactions spend plus those they
\* would create (the hours where their total fits uint64); with an empty
\* pool Predicted equals Confirmed, coins and hours.
C12_Predicted ==
  BalanceReturned =>
    /\ Len(tx.res.bps) = Len(tx.arg)
    /\ \A i \in DOMAIN tx.arg :
         /\ tx.res.bps[i].Predicted.Coins = TotalCoins(ExpectedPredicted(tx.arg[i]))
         /\ TotalHours(ExpectedPredicted(tx.arg[i]), HeadTime(db)) <= MaxUint64 =>
              tx.res.bps[i].Predicted.Hours = TotalHours(ExpectedPredicted(tx.arg[i]), HeadTime(db))
         /\ db.unconfirmed = {} => tx.res.bps[i].Predicted = tx.res.bps[i].Confirmed

C12_Witness ==
  /\ BalanceReturned
  /\ tx.arg = <<"g", "x", "y">>
  /\ PoolHashes(db) = {"C"}
  /\ tx.res.bps[2].Confirmed.Coins = 4
  /\ tx.res.bps[2].Predicted = Balance(0, 0)
  /\ tx.res.bps[3].Predicted.Coins = 4
OverflowErrors ==
  {ErrUint64AddOverflow, ErrUint64MultOverflow, ErrAddEarnedCoinHoursAdditionOverflow}

AddressBalancesReturned == tx.pc = "return" /\ tx.op = "AddressBalances"
GetBalanceReturned == tx.pc = "return" /\ tx.op = "GetBalanceOfAddresses"
HandlerReturned == tx.pc = "return" /\ tx.op = "balanceHandler"

\* the coin totals of the addresses of a query, confirmed and predicted
ConfirmedCoins(addrs) == [i \in DOMAIN addrs |-> TotalCoins(ConfirmedOf(addrs[i]))]
PredictedCoins(addrs) == [i \in DOMAIN addrs |-> TotalCoins(ExpectedPredicted(addrs[i]))]

CoinsOverflow(addrs) ==
  \E i \in DOMAIN addrs :
    ConfirmedCoins(addrs)[i] > MaxUint64 \/ PredictedCoins(addrs)[i] > MaxUint64

\* C13: a coin total beyond uint64 in AddressBalances, in the confirmed or
\* predicted coins of GetBalanceOfAddresses or in the total of the pairs of
\* several addresses gives an overflow error and no balance; a balance that
\* is returned carries the exact totals.
C13_CoinOverflow ==
  /\ AddressBalancesReturned =>
       /\ TotalCoins(tx.arg) > MaxUint64 =>
            tx.err \in OverflowErrors /\ tx.res.coins = 0 /\ tx.res.hours = 0
       /\ tx.err = Nil => tx.res.coins = TotalCoins(tx.arg)
  /\ GetBalanceReturned =>
       /\ (CoinsOverflow(tx.arg) /\ GetArrayOk(db, PoolInputs(db))) =>
            tx.err \in OverflowErrors /\ tx.res.bps = <<>>
       /\ (CoinsOverflow(tx.arg) /\ ~GetArrayOk(db, PoolInputs(db))) =>
            tx.err = ErrUnspentNotExist /\ tx.res.bps = <<>>
       /\ tx.err = Nil =>
            \A i \in DOMAIN tx.arg :
              /\ tx.res.bps[i].Confirmed.Coins = ConfirmedCoins(tx.arg)[i]
              /\ tx.res.bps[i].Predicted.Coins = PredictedCoins(tx.arg)[i]
  /\ HandlerReturned =>
       /\ (SumSeq(ConfirmedCoins(tx.arg)) > MaxUint64 \/ SumSeq(PredictedCoins(tx.arg)) > MaxUint64) =>
            tx.err # Nil /\ tx.res.bp = EmptyBalancePair
       /\ (~CoinsOverflow(tx.arg) /\ GetArrayOk(db, PoolInputs(db))
           /\ SumSeq(PredictedCoins(tx.arg)) > MaxUint64) =>
            tx.err \in OverflowErrors
       /\ tx.err = Nil =>
            /\ tx.res.bp.Confirmed.Coins = SumSeq(ConfirmedCoins(tx.arg))
            /\ tx.res.bp.Predicted.Coins = SumSeq(PredictedCoins(tx.arg))

\* the predicted coins of the genesis address overflow
C13_Witness ==
  /\ GetBalanceReturned
  /\ tx.arg = <<"g">>
  /\ PoolHashes(db) = {"A", "H"}
  /\ PredictedCoins(tx.arg)[1] = 16
  /\ tx.err = ErrUint64AddOverflow
  /\ tx.res.bps = <<>>

\* the same for the total of several addresses and for AddressBalances
C13_WitnessHandler ==
  /\ HandlerReturned
  /\ ~CoinsOverflow(tx.arg)
  /\ SumSeq(PredictedCoins(tx.arg)) > MaxUint64
  /\ tx.err = ErrUint64AddOverflow

C13_WitnessAddressBalances ==
  /\ AddressBalancesReturned
  /\ TotalCoins(tx.arg) > MaxUint64
  /\ tx.err = ErrUint64AddOverflow
\* the hour totals of the addresses of a query, confirmed and predicted
ConfirmedHours(addrs) == [i \in DOMAIN addrs |-> TotalHours(ConfirmedOf(addrs[i]), HeadTime(db))]
PredictedHours(addrs) == [i \in DOMAIN addrs |-> TotalHours(ExpectedPredicted(addrs[i]), HeadTime(db))]

HoursOverflow(addrs) ==
  \E i \in DOMAIN addrs :
    ConfirmedHours(addrs)[i] > MaxUint64 \/ PredictedHours(addrs)[i] > MaxUint64

\* C14: an hour total, confirmed or predicted, beyond uint64 makes
\* GetBalanceOfAddresses fail with no balance pairs; a pair that is returned
\* carries the exact hour totals.
C14_HourOverflowAborts ==
  GetBalanceReturned =>
    /\ HoursOverflow(tx.arg) => (tx.err # Nil /\ tx.res.bps = <<>>)
    /\ tx.err = Nil =>
         \A i \in DOMAIN tx.arg :
           /\ tx.res.bps[i].Confirmed.Hours = ConfirmedHours(tx.arg)[i]
           /\ tx.res.bps[i].Predicted.Hours = PredictedHours(tx.arg)[i]

\* the output of E holds 15 hours and has earned 6 more: the query for x
\* succeeds and reports 0 hours
C14_SilentZero ==
  /\ GetBalanceReturned
  /\ tx.arg = <<"x">>
  /\ ConfirmedOf("x") = CreateUnspents(2, 2, "E")
  /\ HeadTime(db) = 3
  /\ ConfirmedHours(tx.arg)[1] = 21
  /\ tx.err = Nil
  /\ tx.res.bps = <<BalancePair(Balance(6, 0), Balance(6, 0))>>

\* the sum of the hours of two outputs overflows: the query fails
C14_SumAborts ==
  /\ GetBalanceReturned
  /\ tx.arg = <<"x">>
  /\ Cardinality(ConfirmedOf("x")) = 2
  /\ ConfirmedHours(tx.arg)[1] > MaxUint64
  /\ tx.err = ErrUint64AddOverflow
  /\ tx.res.bps = <<>>
\* without an hour total beyond uint64 the hours returned are exact
C14_ExactWhenFits ==
  (GetBalanceReturned /\ tx.err = Nil /\ ~HoursOverflow(tx.arg)) =>
    \A i \in DOMAIN tx.arg :
      /\ tx.res.bps[i].Confirmed.Hours = ConfirmedHours(tx.arg)[i]
      /\ tx.res.bps[i].Predicted.Hours = PredictedHours(tx.arg)[i]
\* the outputs the pooled transactions would create for the address
IncomingOf(addr) ==
  {ux \in UNION {CreateUnspents(HeadSeq(db), HeadTime(db), h) : h \in PoolHashes(db)} :
     ux.Address = addr}

\* the transactions of the block in flight that pay the address
PaidBy(addr) ==
  {h \in Range(tx.b.Transactions) \cap PoolHashes(db) :
     \E i \in DOMAIN TxnBody[h].Out : TxnBody[h].Out[i].Address = addr}

PaidCoins(addr) ==
  TotalCoins(UNION {{ux \in CreateUnspents(0, 0, h) : ux.Address = addr} : h \in PaidBy(addr)})

\* C15: while a pooled transaction pays an address X that owns no confirmed
\* output, the balance of X has Predicted with the incoming output and
\* Confirmed without it (on the genesis head the query for X succeeds);
\* once a block with the transaction is executed the transaction has left
\* the pool and the Confirmed balance of X includes the output.
C15_IncomingThenConfirmed ==
  [][/\ (GetBalanceReturned /\ HeadSeq(db) = 0 /\ Len(tx.arg) = 1 /\ tx.arg[1] # GenesisAddress) =>
          tx.err = Nil
     /\ (GetBalanceReturned /\ tx.err = Nil) =>
          \A i \in DOMAIN tx.arg :
            (ConfirmedOf(tx.arg[i]) = {} /\ IncomingOf(tx.arg[i]) # {}) =>
               /\ tx.res.bps[i].Confirmed = Balance(0, 0)
               /\ tx.res.bps[i].Predicted.Coins = TotalCoins(IncomingOf(tx.arg[i]))
               /\ tx.res.bps[i].Predicted.Coins > 0
     /\ (Attempted /\ tx.err = Nil) =>
          \A addr \in {"x", "y"} :
            (ConfirmedOf(addr) = {} /\ PaidBy(addr) # {}) =>
               /\ PaidBy(addr) \cap PoolHashes(db') = {}
               /\ PaidBy(addr) \subseteq ConfirmedHashes(db')
               /\ GetBalanceOfAddresses(db', <<addr>>).err = Nil =>
                    GetBalanceOfAddresses(db', <<addr>>).bps[1].Confirmed.Coins = PaidCoins(addr)
    ]_vars

\* A is pooled on the genesis head: x is predicted 4 coins, confirmed none
C15_Witness ==
  /\ GetBalanceReturned
  /\ tx.arg = <<"x">>
  /\ HeadSeq(db) = 0
  /\ "A" \in PoolHashes(db)
  /\ tx.err = Nil
  /\ tx.res.bps = <<BalancePair(Balance(0, 0), Balance(4, 0))>>

\* the block with the pooled A has been executed: in the state to commit A
\* is out of the pool and x is confirmed 4 coins
C15_WitnessExecuted ==
  /\ Attempted /\ tx.err = Nil
  /\ "A" \in PaidBy("x")
  /\ ConfirmedOf("x") = {}
  /\ "A" \notin PoolHashes(tx.w)
  /\ GetBalanceOfAddresses(tx.w, <<"x">>).err = Nil
  /\ GetBalanceOfAddresses(tx.w, <<"x">>).bps[1].Confirmed.Coins = 4
GenesisPair ==
  BalancePair(Balance(GenesisCoinVolume, 0), Balance(GenesisCoinVolume, 0))

\* C16: Init on an empty chain commits a state where the balance of the
\* genesis address is the genesis coin volume with 0 hours; as long as the
\* head is the genesis block a successful query for it returns that
\* Confirmed balance.
C16_GenesisBalance ==
  [][/\ (tx.pc = "return" /\ tx.op = "Init" /\ tx.err = Nil /\ db.blockchain = <<>>) =>
          GetBalanceOfAddresses(db', <<GenesisAddress>>) = [err |-> Nil, bps |-> <<GenesisPair>>]
     /\ (GetBalanceReturned /\ HeadSeq(db) = 0 /\ tx.arg = <<GenesisAddress>>) =>
          /\ db.unconfirmed = {} => tx.err = Nil
          /\ tx.err = Nil => tx.res.bps[1].Confirmed = Balance(GenesisCoinVolume, 0)
    ]_vars

C16_Witness ==
  /\ GetBalanceReturned
  /\ Len(db.blockchain) = 1
  /\ db.unconfirmed = {}
  /\ tx.arg = <<GenesisAddress>>
  /\ tx.err = Nil
  /\ tx.res.bps = <<GenesisPair>>
  /\ GenesisPair.Confirmed = Balance(10, 0)

\* Init is about to commit the genesis block to the empty chain
C16_WitnessInit ==
  /\ tx.pc = "return" /\ tx.op = "Init" /\ tx.err = Nil
  /\ db.blockchain = <<>>
  /\ Len(tx.w.blockchain) = 1
(***************************************************************************)
(* The sweeps of the pool.                                                 *)
(***************************************************************************)
SweepOps == {"RefreshUnconfirmed", "RemoveInvalidUnconfirmed"}
SweepReturned == tx.pc = "return" /\ tx.op \in SweepOps

HardValid(h) == VerifySingleTxnHardConstraints(db, h) = Nil

\* a confirmed transaction spends an input of h
SpentByConfirmed(h) == \E c \in ConfirmedHashes(db) : Inputs(c) \cap Inputs(h) # {}

\* C17: a successful block execution leaves in the pool the transactions
\* that are not in its block; RefreshUnconfirmed and
\* RemoveInvalidUnconfirmed keep every pooled transaction that satisfies the
\* hard constraints on the head; RemoveInvalidUnconfirmed removes and
\* returns exactly the pooled transactions that violate one, each of them
\* with an input a confirmed transaction has spent.
C17_KeptUntilInvalid ==
  [][/\ (Attempted /\ tx.err = Nil) =>
          PoolHashes(db) \ Range(tx.b.Transactions) \subseteq PoolHashes(db')
     /\ (SweepReturned /\ tx'.pc = "idle") =>
          /\ tx.err = Nil
          /\ \A h \in PoolHashes(db) : HardValid(h) => (h \in PoolHashes(db') /\ h \notin tx.removed)
     /\ (SweepReturned /\ tx.op = "RemoveInvalidUnconfirmed" /\ tx'.pc = "idle") =>
          /\ tx.hashes = {h \in PoolHashes(db) : ~HardValid(h)}
          /\ PoolHashes(db') = PoolHashes(db) \ tx.hashes
          /\ \A h \in tx.hashes : SpentByConfirmed(h)
    ]_vars

\* E was pooled when the block of C was executed and stayed valid; the
\* later block of F spent its input: the sweep returns E and keeps nothing
\* else back
C17_Witness ==
  /\ tx.pc = "return" /\ tx.op = "RemoveInvalidUnconfirmed"
  /\ ConfirmedHashes(db) = {"G", "A", "C", "F"}
  /\ db.blockchain[3].Transactions = <<"C">>
  /\ db.blockchain[4].Transactions = <<"F">>
  /\ "E" \in PoolHashes(db)
  /\ tx.hashes = {"E"}
  /\ "E" \notin PoolHashes(tx.w)

\* E is left out of the block of C and is valid on the new head: both
\* sweeps keep it
C17_WitnessKept ==
  /\ SweepReturned
  /\ ConfirmedHashes(db) = {"G", "A", "C"}
  /\ "E" \in PoolHashes(db) /\ HardValid("E")
  /\ "E" \in PoolHashes(tx.w)
  /\ tx.removed = {}
RefreshReturned == tx.pc = "return" /\ tx.op = "RefreshUnconfirmed"

\* valid under the policy of the pool, hard and soft constraints
ValidNow(h) == VerifySingleTxnSoftHardConstraints(db, h, UnconfirmedVerifyTxn) = Nil

AllAddresses == {GenesisAddress, "x", "y", NullAddress}

\* the index after parsing the blocks in order
RECURSIVE IndexAfter(_, _)
IndexAfter(d, blocks) ==
  IF blocks = <<>> THEN d.history
  ELSE IndexAfter(ParseBlock(d, Head(blocks)).db, Tail(blocks))

\* the index built block by block as the chain grew
IncrementalIndex == IndexAfter(Erase(db), db.blockchain)

SameAnswers(h1, h2) ==
  /\ \A a \in AllAddresses :
       /\ AddressSeen(h1, a) = AddressSeen(h2, a)
       /\ GetOutputsForAddress(h1, a) = GetOutputsForAddress(h2, a)
  /\ \A h \in Hashes : GetTransaction(h1, h) = GetTransaction(h2, h)

\* New has erased the index and its transaction has returned
RebuildReturned == tx.pc = "return" /\ tx.op = "New" /\ tx.reset

\* C19: for every chain, the rebuild at startup parses every block from 0
\* to the head in increasing order and, unless the store fails, ends with an
\* index that answers address_seen, get_outputs_for_address and
\* get_transaction as the index built incrementally does.
C19_RebuildEqualsIncremental ==
  RebuildReturned =>
    /\ tx.err \in {Nil, ErrStoreDown}
    /\ tx.err = Nil =>
         /\ tx.parsed = [i \in 1..Len(db.blockchain) |-> i - 1]
         /\ SameAnswers(tx.w.history, IncrementalIndex)

\* on a chain of the genesis block alone the rebuild parses nothing and
\* succeeds with an empty index
C19_GenesisSkipped ==
  /\ RebuildReturned
  /\ Len(db.blockchain) = 1
  /\ tx.err = Nil
  /\ tx.parsed = <<>>
  /\ tx.w.history = EmptyHistory
  /\ AddressSeen(IncrementalIndex, GenesisAddress)

\* on a longer chain the first block parsed is block 1, whose input the
\* erased index does not hold
C19_RebuildFails ==
  /\ RebuildReturned
  /\ Len(db.blockchain) = 3
  /\ tx.i = 0 /\ tx.seq = 0 /\ tx.height = 2
  /\ tx.err = ErrStorage
  /\ tx.parsed = <<>>

\* the index kept while blocks are executed is the incremental one
C19_IncrementalKept ==
  (tx.pc = "idle" /\ ~NeedsReset(db)) => SameAnswers(db.history, IncrementalIndex)
\* the transaction of New run to its return on the store d, the store not
\* failing
RECURSIVE RunParse(_)
RunParse(t) == IF t.pc = "return" THEN t ELSE RunParse(parseHistoryTo(t))

RunInitHistory(d) ==
  RunParse(initHistory([Idle EXCEPT !.op = "New", !.pc = "initHistory", !.w = d]))

\* a second start on the store the rebuild in flight would commit
SecondStart == RunInitHistory(tx.w)

\* New is in its transaction and the index needed a reset
Rebuilding == tx.op = "New" /\ tx.pc # "down" /\ NeedsReset(db)

\* C20: a rebuild that is interrupted or fails commits nothing: the store is
\* as before and still needs the reset; every rebuild starts from the empty
\* index; a second rebuild after a successful one ends with an index that
\* answers as the first.
C20_RebuildAtomic ==
  [][/\ (Rebuilding /\ tx.pc = "initHistory" /\ tx'.pc # "down") =>
          (tx'.reset /\ tx'.w.history = EmptyHistory /\ tx'.parsed = <<>>)
     /\ (Rebuilding /\ (tx'.pc = "down" \/ (tx.pc = "return" /\ tx.err # Nil))) =>
          (db' = db /\ NeedsReset(db') /\ tx'.pc = "down")
     /\ (Rebuilding /\ tx.pc = "return" /\ tx.err = Nil /\ tx'.pc # "down") =>
          /\ db' = tx.w
          /\ SecondStart.err = Nil
          /\ SameAnswers(Commit(SecondStart, tx.w).history, tx.w.history)
    ]_vars

\* the rebuild has erased the index in its transaction and failed; the
\* store still holds the index it had
C20_Witness ==
  /\ Rebuilding
  /\ tx.pc = "return" /\ tx.err # Nil
  /\ tx.w.history = EmptyHistory
  /\ db.history.txns # {}
  /\ Len(db.blockchain) = 3

\* a rebuild has succeeded on the chain of the genesis block
C20_WitnessTwice ==
  /\ Rebuilding
  /\ tx.pc = "return" /\ tx.err = Nil
  /\ Len(db.blockchain) = 1
  /\ NeedsReset(tx.w)
  /\ SecondStart.reset

\* the loop of parseHistoryTo has never parsed a block
C20_NothingParsed == tx.op = "New" => tx.parsed = <<>>
\* a genesis block: sequence 0 and one transaction without inputs
IsGenesisBlock(b) ==
  /\ b.BkSeq = 0
  /\ Len(b.Transactions) = 1
  /\ TxnBody[b.Transactions[1]].In = <<>>

InitReturned == tx.op = "Init" /\ tx.pc = "return"

\* C21: Init creates a genesis block and hands it to the execution exactly
\* when the chain has no block; an Init that succeeds on the empty chain
\* commits the chain of that one block and its outputs; an Init on a chain
\* that has a genesis block creates no block and commits the same chain and
\* the same unspent set.
C21_GenesisOnce ==
  [][/\ tx.pc = "maybeCreateGenesisBlock" =>
          IF HeadSeqOk(db)
          THEN tx'.b = NoBlock /\ tx'.pc = "RemoveInvalid" /\ tx'.w = db
          ELSE IsGenesisBlock(tx'.b) /\ tx'.pc = "VerifySignature" /\ tx'.w = db
     /\ (InitReturned /\ HeadSeqOk(db)) =>
          /\ tx.b = NoBlock
          /\ db'.blockchain = db.blockchain
          /\ db'.unspent = db.unspent
     /\ (InitReturned /\ ~HeadSeqOk(db)) =>
          /\ IsGenesisBlock(tx.b)
          /\ IF tx.err = Nil
             THEN db'.blockchain = <<tx.b>> /\ db'.unspent = BlockOutputs(tx.b)
             ELSE db' = db
    ]_vars

\* Init has returned on a chain of three blocks: no block was created and
\* the sweep of the pool removed a transaction
C21_Witness ==
  /\ InitReturned /\ tx.err = Nil
  /\ Len(db.blockchain) = 3
  /\ tx.b = NoBlock
  /\ tx.removed # {}
  /\ tx.w.blockchain = db.blockchain /\ tx.w.unspent = db.unspent

\* Init has created and executed the genesis block on the empty chain
C21_WitnessCreated ==
  /\ InitReturned /\ tx.err = Nil
  /\ db.blockchain = <<>>
  /\ Len(tx.w.blockchain) = 1 /\ IsGenesisBlock(tx.w.blockchain[1])
CreateAndExecuteReturned == tx.op = "CreateAndExecuteBlock" /\ tx.pc = "return"

\* C22: on a node that is not the block publisher CreateAndExecuteBlock
\* stops in createBlock with a panic, holding no block, and commits nothing;
\* on the publisher the store changes only at the end of the one transaction,
\* which either commits nothing or commits together the block built from the
\* pool of that transaction, signed by the publisher, appended, its
\* transactions out of the pool and the block parsed into the history.
C22_PublisherOnly ==
  [][/\ (tx.pc = "createBlock" /\ ~Config.IsBlockPublisher) =>
          (tx'.pc = "return" /\ tx'.err = ErrPanic /\ tx'.b = NoBlock /\ tx'.w = db)
     /\ (CreateAndExecuteReturned /\ ~Config.IsBlockPublisher) =>
          (tx.err = ErrPanic /\ tx.b = NoBlock /\ db' = db)
     /\ (tx.op = "CreateAndExecuteBlock" /\ tx.pc # "return") => db' = db
     /\ (CreateAndExecuteReturned /\ tx.err # Nil) => db' = db
     /\ (CreateAndExecuteReturned /\ tx.err = Nil) =>
          /\ Config.IsBlockPublisher
          /\ VerifySignature(tx.b, BlockchainPubkey)
          /\ Range(tx.b.Transactions) \subseteq PoolHashes(db)
          /\ db'.blockchain = Append(db.blockchain, tx.b)
          /\ db'.unspent = {ux \in db.unspent : ux.Hash \notin BlockInputSet(tx.b)}
                             \cup BlockOutputs(tx.b)
          /\ db'.unconfirmed = {u \in db.unconfirmed : u.Hash \notin Range(tx.b.Transactions)}
          /\ db'.history.parsedBlockSeq = tx.b.BkSeq
    ]_vars

\* on a node that is not the publisher, with a pool a publisher would build
\* a block from, CreateAndExecuteBlock has panicked
C22_Witness ==
  /\ CreateAndExecuteReturned
  /\ ~Config.IsBlockPublisher
  /\ tx.err = ErrPanic
  /\ createBlockFromTxns(db, AllRawTransactions(db), tx.when).err = Nil

\* on the publisher a block of a pooled transaction has been built, signed
\* and executed in the transaction, another one staying in the pool
C22_WitnessPublisher ==
  /\ CreateAndExecuteReturned
  /\ Config.IsBlockPublisher
  /\ tx.err = Nil
  /\ Len(tx.b.Transactions) = 1
  /\ tx.w.unconfirmed # {}
  /\ tx.w.history.parsedBlockSeq = tx.b.BkSeq
  /\ Len(tx.w.blockchain) = Len(db.blockchain) + 1
\* block building has returned: CreateBlockFromTxns, or CreateAndExecuteBlock
\* on the publisher
BuildReturned ==
  /\ tx.pc = "return"
  /\ \/ tx.op = "CreateBlockFromTxns"
     \/ tx.op = "CreateAndExecuteBlock" /\ Config.IsBlockPublisher

\* the candidates of the build, the ones that pass the block-creation policy
\* on the head, and what is left of them after the truncation to the size
Candidates == IF tx.op = "CreateBlockFromTxns" THEN tx.txns ELSE AllRawTransactions(db)

Survivors ==
  {h \in Range(Candidates) :
     /\ VerifySingleTxnHardConstraints(db, h) = Nil
     /\ VerifySingleTxnSoftConstraints(db, h, CreateBlockVerifyTxn) = Nil}

SurvivorsTruncated ==
  TruncateBytesTo(SortTransactions(db, Survivors), Config.MaxBlockTransactionsSize)

C23_WitnessEmpty == BuildReturned /\ Candidates = <<>> /\ tx.err = ErrNoTxns

\* a candidate passes the filter and is larger than the size of a block: the
\* build has panicked
C23_WitnessPanic ==
  /\ BuildReturned
  /\ Survivors # {} /\ SurvivorsTruncated = <<>>
  /\ tx.err = ErrPanic /\ tx.b = NoBlock

PassesPolicy(h) == h \in Survivors

\* the candidates that pass the filter, in the order they were given
SurvivorSeq == SelectSeq(Candidates, PassesPolicy)

\* C24: every transaction of a built block satisfies the hard and the soft
\* constraints of the block-creation policy on the head; candidates that
\* violate a constraint never make the build return a violation, and unless
\* the store failed the result is the one the build has for the candidates
\* that pass alone; a failure of the store in the verification ends the build
\* with that error and no block.
C24_OnlyValidInBlock ==
  BuildReturned =>
    /\ (tx.err = Nil \/ tx.b # NoBlock) => Range(tx.b.Transactions) \subseteq Survivors
    /\ tx.err \notin {ErrHard, ErrSoft, ErrUser}
    /\ (tx.op = "CreateBlockFromTxns" /\ tx.err \notin {ErrStorage, ErrTruncate}) =>
         /\ tx.err = createBlockFromTxns(db, SurvivorSeq, HeadTime(db) + 1).err
         /\ tx.b.Transactions
              = createBlockFromTxns(db, SurvivorSeq, HeadTime(db) + 1).b.Transactions
    /\ (tx.op = "CreateBlockFromTxns" /\ tx.err = ErrStorage) =>
         (tx.b = NoBlock /\ tx.w = db /\ Candidates # <<>>)

\* a block has been built from two candidates of which one violates a soft
\* constraint only
C24_Witness ==
  /\ BuildReturned /\ tx.err = Nil
  /\ Len(Candidates) = 2
  /\ Len(tx.b.Transactions) = 1
  /\ \E h \in Range(Candidates) :
       /\ VerifySingleTxnHardConstraints(db, h) = Nil
       /\ VerifySingleTxnSoftConstraints(db, h, CreateBlockVerifyTxn) # Nil

\* a block has been built from candidates of which one violates a hard
\* constraint
C24_WitnessHard ==
  /\ BuildReturned /\ tx.err = Nil
  /\ \E h \in Range(Candidates) : VerifySingleTxnHardConstraints(db, h) # Nil

\* the store failed in the verification of candidates that would have made a
\* block
C24_WitnessStorage ==
  /\ BuildReturned /\ tx.op = "CreateBlockFromTxns"
  /\ tx.err = ErrStorage /\ tx.b = NoBlock
  /\ Survivors # {}
\* the candidates that pass the filter, in the order of the fee
SurvivorsSorted == SortTransactions(db, Survivors)

\* the encoded size of the transactions of a list
RECURSIVE SizeOf(_)
SizeOf(txns) == IF txns = <<>> THEN 0 ELSE TxnBody[Head(txns)].Size + SizeOf(Tail(txns))

BlockBuilt == BuildReturned /\ tx.b # NoBlock

\* C25: the transactions of a built block are a prefix of the filtered
\* candidates in the order of the fee; their sizes add up to no more than
\* MaxBlockTransactionsSize and they are no more than MaxBlockTransactions;
\* the prefix is the longest one within both limits; a build whose
\* truncation returned an error has that error and no block.
C25_TruncatedPrefix ==
  /\ BlockBuilt =>
       /\ Len(tx.b.Transactions) <= Len(SurvivorsSorted)
       /\ tx.b.Transactions = SubSeq(SurvivorsSorted, 1, Len(tx.b.Transactions))
       /\ SizeOf(tx.b.Transactions) <= Config.MaxBlockTransactionsSize
       /\ Len(tx.b.Transactions) <= MaxBlockTransactions
       /\ \/ Len(tx.b.Transactions) = Len(SurvivorsSorted)
          \/ Len(tx.b.Transactions) = MaxBlockTransactions
          \/ SizeOf(SubSeq(SurvivorsSorted, 1, Len(tx.b.Transactions) + 1))
               > Config.MaxBlockTransactionsSize
  /\ (BuildReturned /\ tx.err = ErrTruncate) => (tx.b = NoBlock /\ tx.w = db /\ Survivors # {})

\* three candidates pass the filter and are too large together: the block
\* holds the first two in the order of the fee
C25_Witness ==
  /\ BlockBuilt /\ tx.err = Nil
  /\ Len(SurvivorsSorted) = 3
  /\ SizeOf(SurvivorsSorted) > Config.MaxBlockTransactionsSize
  /\ SizeOf(SubSeq(SurvivorsSorted, 1, 2)) < Config.MaxBlockTransactionsSize
  /\ Len(tx.b.Transactions) = 2

\* three candidates pass the filter and fit the size: the block holds
\* MaxBlockTransactions of them
C25_WitnessCap ==
  /\ BlockBuilt /\ tx.err = Nil
  /\ Len(SurvivorsSorted) = 3
  /\ SizeOf(SurvivorsSorted) <= Config.MaxBlockTransactionsSize
  /\ Len(tx.b.Transactions) = MaxBlockTransactions

\* the size lets one transaction pass, below the cap
C25_WitnessOne ==
  /\ BlockBuilt /\ tx.err = Nil
  /\ Len(SurvivorsSorted) = 3
  /\ Len(tx.b.Transactions) = 1

\* the truncation returned an error
C25_WitnessError == BuildReturned /\ tx.err = ErrTruncate /\ Len(SurvivorsSorted) = 3
\* the lists with the elements of s in every order (s has no duplicates)
Perms(s) == {p \in [DOMAIN s -> Range(s)] : Range(p) = Range(s)}

\* a pays more per byte than b
PaysMore(a, b) ==
  TransactionFee(db, a) * TxnBody[b].Size > TransactionFee(db, b) * TxnBody[a].Size

\* C26: a build from the same candidates in any other order, on the same
\* chain and with the same timestamp, gives the same error and the same
\* block; in a built block a transaction comes before the ones that pay less
\* per byte, and before the ones that pay the same and have a larger hash.
C26_Deterministic ==
  /\ (BuildReturned /\ tx.op = "CreateBlockFromTxns" /\ tx.err \notin {ErrStorage, ErrTruncate}) =>
       \A p \in Perms(tx.txns) :
         /\ createBlockFromTxns(db, p, HeadTime(db) + 1).err = tx.err
         /\ createBlockFromTxns(db, p, HeadTime(db) + 1).b = tx.b
  /\ BlockBuilt =>
       \A i, j \in DOMAIN tx.b.Transactions :
         i < j => \/ PaysMore(tx.b.Transactions[i], tx.b.Transactions[j])
                  \/ /\ ~PaysMore(tx.b.Transactions[j], tx.b.Transactions[i])
                     /\ HashLess(tx.b.Transactions[i], tx.b.Transactions[j])

\* a block of two transactions has been built: the first pays more per byte
\* and has the larger hash, and was not the first candidate
C26_Witness ==
  /\ BlockBuilt /\ tx.op = "CreateBlockFromTxns" /\ tx.err = Nil
  /\ Len(tx.b.Transactions) = 2
  /\ PaysMore(tx.b.Transactions[1], tx.b.Transactions[2])
  /\ HashLess(tx.b.Transactions[2], tx.b.Transactions[1])
  /\ tx.txns[1] # tx.b.Transactions[1]

\* a block of two transactions that pay the same per byte has been built
\* from the two in the other order
C26_WitnessTie ==
  /\ BlockBuilt /\ tx.op = "CreateBlockFromTxns" /\ tx.err = Nil
  /\ Len(tx.txns) = 2 /\ Len(tx.b.Transactions) = 2
  /\ ~PaysMore(tx.b.Transactions[1], tx.b.Transactions[2])
  /\ tx.txns[1] = tx.b.Transactions[2]
ActivityReturned == tx.op = "AddressesActivity" /\ tx.pc = "return"

\* the address is the address of an output in the confirmed history or of an
\* output of a pooled transaction
HasActivity(a) ==
  \/ \E o \in db.history.outputs : o.Address = a
  \/ \E h \in PoolHashes(db) : \E i \in DOMAIN TxnBody[h].Out : TxnBody[h].Out[i].Address = a

\* C27 as stated: AddressesActivity returns one flag for every address asked for, in
\* the order asked, and flag i is true exactly when address i is the address
\* of an output in the confirmed history or of an output of a pooled
\* transaction.
C27_ActivityFlags ==
  (ActivityReturned /\ tx.err = Nil) =>
    /\ Len(tx.res.active) = Len(tx.arg)
    /\ \A i \in DOMAIN tx.arg : tx.res.active[i] <=> HasActivity(tx.arg[i])

\* two addresses asked for are in the confirmed history, none is paid by the
\* pool: only the last of the two is flagged
C27_EarlierMissed ==
  /\ ActivityReturned /\ tx.err = Nil
  /\ tx.arg = <<"g", "x", "y">>
  /\ db.unconfirmed = {}
  /\ HasActivity("g") /\ HasActivity("x") /\ ~HasActivity("y")
  /\ tx.res.active = <<FALSE, TRUE, FALSE>>

\* C27: AddressesActivity returns one flag per address, none for an address without
\* activity, one for every address the pool pays and for the last address of
\* the list that is in the confirmed history
C27_FlagsSound ==
  (ActivityReturned /\ tx.err = Nil) =>
    /\ Len(tx.res.active) = Len(tx.arg)
    /\ \A i \in DOMAIN tx.arg :
         /\ tx.res.active[i] => HasActivity(tx.arg[i])
         /\ (HasActivity(tx.arg[i]) /\ \A j \in DOMAIN tx.arg : j > i => ~HasActivity(tx.arg[j]))
              => tx.res.active[i]
         /\ tx.arg[i] \in PoolOutputAddresses(db) => tx.res.active[i]
HasDuplicates(addrs) == \E i, j \in DOMAIN addrs : i # j /\ addrs[i] = addrs[j]
HasForeign(addrs) == \E i \in DOMAIN addrs : addrs[i] \notin Addresses \cup {NullAddress}

\* C28: AddressesActivity of a list that holds an address twice or an
\* address of another kind returns an error and no flags, the same on every
\* store and never a failure of a read of the store; of the empty list it
\* returns no flags and no error; of any other list it returns flags or the
\* failure of a read.
C28_RejectsBadInput ==
  ActivityReturned =>
    /\ (HasDuplicates(tx.arg) \/ HasForeign(tx.arg)) =>
         /\ tx.err \in {ErrInvalidAddress, ErrDuplicateAddresses}
         /\ tx.res.active = <<>>
         /\ AddressesActivity(EmptyDB, tx.arg) = {tx.res}
    /\ tx.arg = <<>> => (tx.err = Nil /\ tx.res.active = <<>>)
    /\ (tx.arg # <<>> /\ ~HasDuplicates(tx.arg) /\ ~HasForeign(tx.arg)) =>
         /\ tx.err \in {Nil, ErrStorage}
         /\ tx.err = Nil => Len(tx.res.active) = Len(tx.arg)

\* a list with the same address twice, an address with activity, has been
\* refused
C28_Witness ==
  /\ ActivityReturned
  /\ HasDuplicates(tx.arg) /\ HasActivity(tx.arg[1])
  /\ tx.err = ErrDuplicateAddresses /\ tx.res.active = <<>>

\* a list with an address of another kind has been refused
C28_WitnessForeign ==
  /\ ActivityReturned
  /\ HasForeign(tx.arg) /\ HasActivity(tx.arg[1])
  /\ tx.err = ErrInvalidAddress /\ tx.res.active = <<>>

\* the empty list
C28_WitnessEmpty ==
  ActivityReturned /\ tx.arg = <<>> /\ tx.err = Nil /\ db.history.outputs # {}
\* GetTransaction has returned and its reads of the store succeeded
GetTransactionReturned ==
  tx.op = "GetTransaction" /\ tx.pc = "return" /\ tx.err # ErrStorage

\* the transaction is in block s of the chain of d
InBlock(d, h, s) == s + 1 \in DOMAIN d.blockchain /\ h \in Range(d.blockchain[s + 1].Transactions)

\* the history of d records the transaction
Recorded(d, h) == GetTransaction(d.history, h) # {}

C29_WitnessPooled ==
  /\ GetTransactionReturned
  /\ tx.arg[1] \in PoolHashes(db)
  /\ tx.res.found /\ ~tx.res.Confirmed

\* a transaction in no block and not pooled is not found
C29_WitnessUnknown ==
  /\ GetTransactionReturned
  /\ tx.arg = <<"D">> /\ ~tx.res.found /\ tx.err = Nil

\* after the rebuild of the history on the chain of the genesis block, the
\* genesis transaction, in block 0, is not found
C29_LostByRebuild ==
  /\ GetTransactionReturned
  /\ InBlock(db, tx.arg[1], 0) /\ ~Recorded(db, tx.arg[1])
  /\ ~tx.res.found
\* the operations that only read or build
ReadOps ==
  {"CreateBlockFromTxns", "VerifyBlock", "AddressesActivity", "GetTransaction",
   "GetBalanceOfAddresses", "AddressBalances", "balanceHandler",
   "GetUnspentOutputsSummary", "GetSignedBlocksSince",
   "VerifyTxnVerbose"}

\* what the History Index records, its bookkeeping of the parsed height aside
HistoryIndex(d) == [txns |-> d.history.txns, outputs |-> d.history.outputs]

\* the step commits the execution of the block of the handler in flight
CommitsBlock ==
  /\ tx.pc = "return" /\ tx.err = Nil
  /\ tx.op \in ExecOps /\ tx.b # NoBlock
  /\ db'.blockchain = Append(db.blockchain, tx.b)

\* the step commits the erase and rebuild of the history at startup
CommitsRebuild ==
  /\ tx.pc = "return" /\ tx.err = Nil
  /\ tx.op = "New" /\ tx.reset
  /\ db'.blockchain = db.blockchain /\ db'.unspent = db.unspent

\* C30: the chain, the unspent set and the History Index change only when
\* the execution of a block is committed, the History Index also when the
\* rebuild at startup is committed; the membership of the pool changes only
\* when an injection, a refresh, a remove-invalid (that of Init included) or
\* the execution of a block is committed; CreateBlockFromTxns, VerifyBlock,
\* AddressesActivity and the queries leave the whole store as it was.
C30_FrameOfStore ==
  [][/\ (db'.blockchain # db.blockchain \/ db'.unspent # db.unspent) => CommitsBlock
     /\ HistoryIndex(db') # HistoryIndex(db) => (CommitsBlock \/ CommitsRebuild)
     /\ PoolHashes(db') # PoolHashes(db) =>
          /\ tx.pc = "return" /\ tx.err = Nil
          /\ tx.op \in PoolOps \cup ExecOps
          /\ tx.op \in ExecOps \ {"Init"} => CommitsBlock
     /\ tx.op \in ReadOps => db' = db
    ]_vars

\* CreateBlockFromTxns has built a block of two transactions and its
\* db.Update ends
C30_Witness ==
  /\ tx.op = "CreateBlockFromTxns" /\ tx.pc = "return" /\ tx.err = Nil
  /\ Len(tx.b.Transactions) = 2
  /\ db.unconfirmed # {}
  /\ Len(db.blockchain) >= 2

\* VerifyBlock has accepted a block
C30_WitnessVerify ==
  /\ tx.op = "VerifyBlock" /\ tx.pc = "return" /\ tx.err = Nil
  /\ Len(tx.b.Transactions) = 2

\* VerifyBlock has refused a block
C30_WitnessRefused ==
  /\ tx.op = "VerifyBlock" /\ tx.pc = "return" /\ tx.err = ErrBlock

\* a committed execution removes a confirmed transaction from the pool
C30_WitnessPool ==
  /\ tx.pc = "return" /\ tx.err = Nil /\ tx.op = "ExecuteSignedBlock"
  /\ PoolHashes(tx.w) # PoolHashes(db)
\* the second caller has run a query during the operation in flight
ReadConcurrently == tx.res # <<>> /\ tx.op \notin ReadOps

C31_WitnessPool ==
  /\ ReadConcurrently
  /\ tx.op = "InjectUserTransaction" /\ tx.err = Nil
  /\ PoolHashes(tx.w) # PoolHashes(db)
  /\ tx.res.q = "GetBalanceOfAddresses"
  /\ tx.res.r # GetBalanceOfAddresses(tx.w, <<"g", "x", "y">>)
\* the coins of the outputs a transaction spends, as their source
\* transactions created them
CoinsSpent(h) ==
  SumSeq([i \in DOMAIN TxnBody[h].In |->
            TxnBody[TxnBody[h].In[i][1]].Out[TxnBody[h].In[i][2]].Coins])

\* C32: in every committed state with a genesis block the coins of all
\* unspent outputs are no more than the genesis coin volume, and every
\* transaction of every block after the genesis block creates outputs of no
\* more coins than the outputs it spends.
C32_CoinsConserved ==
  HeadSeqOk(db) =>
    /\ TotalCoins(db.unspent) <= GenesisCoinVolume
    /\ \A i \in DOMAIN db.blockchain : i > 1 =>
         \A h \in Range(db.blockchain[i].Transactions) : CoinsOut(h) <= CoinsSpent(h)

\* three blocks were executed and the outputs unspent hold the whole volume
\* in at least three outputs
C32_Witness ==
  /\ tx.pc = "idle"
  /\ Len(db.blockchain) >= 3
  /\ Cardinality(db.unspent) >= 3
  /\ TotalCoins(db.unspent) = GenesisCoinVolume

\* the execution of a block whose transaction creates a coin was refused
C32_WitnessRefused ==
  /\ tx.pc = "return" /\ tx.op \in {"ExecuteSignedBlock", "ExecuteSignedBlockUnsafe"}
  /\ tx.b # NoBlock /\ tx.b.Transactions = <<"D">>
  /\ tx.b.Sig = BlockchainPubkey
  /\ tx.err # Nil
\* the positions of the addresses asked for that the confirmed history has
\* seen, and of those an output of a pooled transaction pays
SeenInHistory == {i \in DOMAIN tx.arg : \E o \in db.history.outputs : o.Address = tx.arg[i]}

PaidByPool ==
  {i \in DOMAIN tx.arg :
     \E h \in PoolHashes(db) : \E k \in DOMAIN TxnBody[h].Out : TxnBody[h].Out[k].Address = tx.arg[i]}

\* C33: of the addresses asked for that the pool does not pay, AddressesActivity
\* flags at most one, the one of the highest position among those the
\* confirmed history has seen; it flags every address an output of a pooled
\* transaction pays, and no other.
C33_LastSeenThenPool ==
  (ActivityReturned /\ tx.err = Nil) =>
    /\ \A i \in PaidByPool : tx.res.active[i]
    /\ Cardinality({i \in DOMAIN tx.arg : tx.res.active[i]} \ PaidByPool) <= 1
    /\ \A i \in DOMAIN tx.arg \ PaidByPool :
         tx.res.active[i] <=> (i \in SeenInHistory /\ \A j \in SeenInHistory : j <= i)

\* the history has seen the first two of three addresses and the pool pays
\* the third: the second and the third are flagged
C33_Witness ==
  /\ ActivityReturned /\ tx.err = Nil
  /\ tx.arg = <<"g", "x", "y">>
  /\ SeenInHistory = {1, 2} /\ PaidByPool = {3}
  /\ tx.res.active = <<FALSE, TRUE, TRUE>>

\* the pool pays two addresses, one of them before the last seen
C33_WitnessPoolBefore ==
  /\ ActivityReturned /\ tx.err = Nil
  /\ Len(tx.arg) = 3
  /\ 1 \in PaidByPool /\ 1 \in SeenInHistory /\ 2 \in SeenInHistory
  /\ tx.res.active[1] /\ tx.res.active[2]
BlocksSinceReturned == tx.op = "GetSignedBlocksSince" /\ tx.pc = "return"

\* the smaller of two numbers
Min(a, b) == IF a < b THEN a ELSE b

\* C34: GetSignedBlocksSince(seq, ct) returns without error the blocks of
\* sequences seq + 1, seq + 2, ... of the chain, in this order and without
\* gaps: min(ct, head - seq) of them when the head is after seq, none when it
\* is not or when ct = 0, and none of them is after the head.
C34_BlocksSince ==
  BlocksSinceReturned =>
    /\ tx.err = Nil
    /\ Len(tx.res.blocks) =
         IF HeadSeq(db) > tx.arg[1] THEN Min(tx.arg[2], HeadSeq(db) - tx.arg[1]) ELSE 0
    /\ \A k \in DOMAIN tx.res.blocks :
         /\ tx.res.blocks[k].BkSeq = tx.arg[1] + k
         /\ tx.res.blocks[k].BkSeq <= HeadSeq(db)
         /\ tx.res.blocks[k] = db.blockchain[tx.arg[1] + k + 1]

\* two blocks asked for after block 1 of a chain of four: blocks 2 and 3
C34_Witness ==
  /\ BlocksSinceReturned
  /\ tx.arg = <<1, 2>> /\ HeadSeq(db) = 3
  /\ Len(tx.res.blocks) = 2
  /\ tx.res.blocks[1].BkSeq = 2 /\ tx.res.blocks[2].BkSeq = 3

\* more blocks asked for than there are: those up to the head
C34_WitnessClamped ==
  /\ BlocksSinceReturned
  /\ tx.arg = <<0, MaxUint64>> /\ HeadSeq(db) = 2
  /\ Len(tx.res.blocks) = 2

\* the largest sequence asked for: no block
C34_WitnessPastHead ==
  /\ BlocksSinceReturned
  /\ tx.arg = <<MaxUint64, 2>>
  /\ tx.res.blocks = <<>> /\ tx.err = Nil
\* C35: in every committed state every input of every pooled transaction is
\* an unspent output, and the queries that read the outputs the pool spends
\* do not fail with ErrUnspentNotExist.
C35_PoolInputsUnspent ==
  /\ HeadSeqOk(db) =>
       \A h \in PoolHashes(db) : Inputs(h) \subseteq UnspentHashes(db)
  /\ (tx.pc = "return" /\ tx.op \in {"GetBalanceOfAddresses", "GetUnspentOutputsSummary"}) =>
       tx.err # ErrUnspentNotExist

\* a block was executed that spends the output a pooled transaction spends
\* too: the committed pool holds a transaction whose input is spent, and the
\* summary of the unspent outputs fails
C35_SpentInputPooled ==
  /\ tx.pc = "return" /\ tx.op = "GetUnspentOutputsSummary"
  /\ tx.err = ErrUnspentNotExist
  /\ \E h \in PoolHashes(db) :
       /\ ~(Inputs(h) \subseteq UnspentHashes(db))
       /\ \E c \in ConfirmedHashes(db) : c # h /\ Inputs(c) \cap Inputs(h) # {}

\* the same for the balance of addresses none of which the pool touches
C35_BalanceFails ==
  /\ tx.pc = "return" /\ tx.op = "GetBalanceOfAddresses"
  /\ tx.err = ErrUnspentNotExist
  /\ \E h \in PoolHashes(db) : ~(Inputs(h) \subseteq UnspentHashes(db))

\* what holds: the inputs of the pooled transactions are unspent in the
\* state a remove-invalid or a refresh commits
C35_UnspentAfterSweep ==
  [][(/\ tx.pc = "return" /\ tx.err = Nil /\ tx'.pc = "idle"
      /\ tx.op \in {"RemoveInvalidUnconfirmed", "Init"}
      /\ HeadSeqOk(db'))
       => \A h \in PoolHashes(db') : Inputs(h) \subseteq UnspentHashes(db')]_vars
VerifyVerboseReturned == tx.op = "VerifyTxnVerbose" /\ tx.pc = "return"

\* an input of the transaction is not unspent and the history holds its
\* inputs
SpentInHistory(h) ==
  /\ ~(Inputs(h) \subseteq UnspentHashes(db))
  /\ Inputs(h) \subseteq HistoryOutputHashes(db.history)

\* C36: VerifyTxnVerbose returns a result and does not fault; for a
\* transaction an input of which is not unspent and whose inputs the history
\* holds, it reports confirmed exactly when the History Index holds the
\* transaction.
C36_VerboseCompletes ==
  VerifyVerboseReturned =>
    /\ tx.err # ErrPanic
    /\ SpentInHistory(tx.txn) =>
         (tx.res.confirmed <=> GetTransaction(db.history, tx.txn) # {})

\* the inputs of the transaction were spent by another confirmed
\* transaction: VerifyTxnVerbose faults
C36_FaultOnConflict ==
  /\ VerifyVerboseReturned
  /\ SpentInHistory(tx.txn)
  /\ tx.txn \notin ConfirmedHashes(db)
  /\ \E c \in ConfirmedHashes(db) : Inputs(c) \cap Inputs(tx.txn) # {}
  /\ tx.err = ErrPanic

\* a confirmed transaction is reported confirmed
C36_WitnessConfirmed ==
  /\ VerifyVerboseReturned
  /\ SpentInHistory(tx.txn)
  /\ tx.res.confirmed /\ tx.err = Nil

\* what holds: VerifyTxnVerbose faults only for a transaction that is not in
\* the History Index and whose inputs the history holds as spent, and it
\* reports confirmed only a transaction the History Index holds
C36_FaultsOnlyOnConflict ==
  VerifyVerboseReturned =>
    /\ tx.err = ErrPanic <=>
         (SpentInHistory(tx.txn) /\ GetTransaction(db.history, tx.txn) = {})
    /\ tx.res.confirmed => GetTransaction(db.history, tx.txn) # {}
\* pools of up to two transactions
OtherPools ==
  {{[Hash |-> h, IsValid |-> TRUE] : h \in S} :
     S \in {T \in SUBSET {"A", "B", "C", "E", "H", "R"} : Cardinality(T) <= 2}}

\* the store with another pool
WithPool(d, pool) == [d EXCEPT !.unconfirmed = pool]

\* the Confirmed balances of two results are the same
SameConfirmed(r1, r2) ==
  /\ Len(r1.bps) = Len(r2.bps)
  /\ \A i \in DOMAIN r1.bps : r1.bps[i].Confirmed = r2.bps[i].Confirmed

\* C37: when GetBalanceOfAddresses succeeds, the Confirmed balances it
\* reports are those it reports, when it succeeds, in every state with the
\* same chain and unspent outputs and another pool.
C37_ConfirmedIgnoresPool ==
  (GetBalanceReturned /\ tx.err = Nil) =>
    \A pool \in OtherPools :
      GetBalanceOfAddresses(WithPool(db, pool), tx.arg).err = Nil =>
        SameConfirmed(tx.res, GetBalanceOfAddresses(WithPool(db, pool), tx.arg))

\* the balances of three addresses with a transaction in the pool; with the
\* empty pool the Predicted balances differ and the call succeeds too
C37_Witness ==
  /\ GetBalanceReturned /\ tx.err = Nil
  /\ tx.arg = <<"g", "x", "y">>
  /\ db.unconfirmed # {}
  /\ GetBalanceOfAddresses(WithPool(db, {}), tx.arg).err = Nil
  /\ GetBalanceOfAddresses(WithPool(db, {}), tx.arg) # tx.res

\* an output of x has earned more hours than uint64 holds: the Confirmed
\* hours of x are 0, with the empty pool and with the pool that spends it
C37_WitnessOverflow ==
  /\ GetBalanceReturned /\ tx.err = Nil
  /\ tx.arg = <<"g", "x", "y">>
  /\ \E ux \in db.unspent :
       /\ ux.Address = "x"
       /\ UxOutCoinHours(ux, HeadTime(db)).err = ErrAddEarnedCoinHoursAdditionOverflow
  /\ tx.res.bps[2].Confirmed = Balance(6, 0)
  /\ GetBalanceOfAddresses(WithPool(db, {[Hash |-> "R", IsValid |-> TRUE]}), tx.arg).err = Nil
  /\ GetBalanceOfAddresses(WithPool(db, {[Hash |-> "R", IsValid |-> TRUE]}), tx.arg).bps[2]
       = BalancePair(Balance(6, 0), Balance(0, 0))

\* the node runs, no operation is in flight and the chain has its genesis
\* block
Initialised == tx.pc = "idle" /\ HeadSeqOk(db)

\* C38: in every committed state of a running node with a genesis block the
\* parsed block sequence of the History Index is the head sequence of the
\* chain, and the History Index returns every transaction of every executed
\* block, the genesis transaction included.
C38_HistoryFollowsChain ==
  Initialised =>
    /\ db.history.parsedBlockSeq = HeadSeq(db)
    /\ \A h \in ConfirmedHashes(db) : GetTransaction(db.history, h) # {}

\* the node was started on the chain of the genesis block with an index to
\* rebuild: it runs with an index that holds nothing and has parsed nothing
C38_GenesisLost ==
  /\ Initialised
  /\ Len(db.blockchain) = 1
  /\ db.history.txns = {} /\ db.history.parsedBlockSeq < 0
  /\ GetTransaction(db.history, "G") = {}

\* what holds: the index of a running node that records a parsed height has
\* parsed up to the head and returns every transaction of the chain, each in
\* the block that holds it
C38_FollowsWhenParsed ==
  (Initialised /\ db.history.parsedBlockSeq >= 0) =>
    /\ db.history.parsedBlockSeq = HeadSeq(db)
    /\ \A i \in DOMAIN db.blockchain : \A h \in Range(db.blockchain[i].Transactions) :
         [Hash |-> h, BlockSeq |-> i - 1] \in db.history.txns

(***************************************************************************)
(* The genesis block of a node that does not publish.                      *)
(***************************************************************************)
\* the genesis block as a node that does not publish hands it to the
\* execution: with the configured signature
ConfiguredGenesis == [NewGenesisBlock EXCEPT !.Sig = Config.GenesisSignature]

\* Init of a node that does not publish returns on the empty chain
InitOfFollower ==
  /\ InitReturned /\ tx'.pc = "idle"
  /\ ~Config.IsBlockPublisher
  /\ ~HeadSeqOk(db)

\* C40: on a node that does not publish, an Init on the empty chain hands
\* the genesis block with the configured signature to the execution; when
\* that signature does not verify against the publisher's key, Init returns
\* the signature error, its sweep of the pool has removed nothing and the
\* commit leaves the store as it was, with the empty chain; the chain gets
\* its genesis block only when the signature verifies.
C40_GenesisSignature ==
  [][InitOfFollower =>
       /\ tx.b = ConfiguredGenesis
       /\ IF VerifySignature(ConfiguredGenesis, BlockchainPubkey)
          THEN tx.err = Nil => db'.blockchain = <<ConfiguredGenesis>>
          ELSE /\ tx.err = ErrSig
               /\ tx.removed = {}
               /\ db' = db
               /\ db'.blockchain = <<>>
    ]_vars

\* Init of a node whose configured genesis signature is not the
\* publisher's has returned the signature error on the empty chain
C40_Witness ==
  /\ InitReturned /\ ~Config.IsBlockPublisher
  /\ Config.GenesisSignature # BlockchainPubkey
  /\ tx.err = ErrSig
  /\ db.blockchain = <<>> /\ tx.w.blockchain = <<>>

\* Init of a node that does not publish and whose configured signature
\* verifies has executed the genesis block
C40_WitnessVerified ==
  /\ InitReturned /\ ~Config.IsBlockPublisher
  /\ Config.GenesisSignature = BlockchainPubkey
  /\ tx.err = Nil
  /\ db.blockchain = <<>> /\ tx.w.blockchain = <<ConfiguredGenesis>>

(***************************************************************************)
(* Pooled transactions get into blocks.                                    *)
(***************************************************************************)
\* h is pooled and satisfies the soft and hard constraints of the
\* block-creation policy on the committed chain
Includable(d, h) ==
  /\ h \in PoolHashes(d)
  /\ VerifySingleTxnSoftHardConstraints(d, h, CreateBlockVerifyTxn) = Nil

\* two transactions that spend the same output
Conflicting(g, h) == g # h /\ Inputs(g) \cap Inputs(h) # {}

\* h is in an executed block, or a transaction that spends one of its
\* inputs is
Settled(d, h) ==
  \/ h \in ConfirmedHashes(d)
  \/ \E g \in ConfirmedHashes(d) : Conflicting(g, h)

\* the chain has the length the model stops at
ChainFull == Len(db.blockchain) >= MaxBlocks

\* two transactions of the pool that both satisfy the policy spend the
\* same output
PoolConflict(d) ==
  \E g \in PoolHashes(d) : \E h \in PoolHashes(d) :
    Conflicting(g, h) /\ Includable(d, g) /\ Includable(d, h)

C39_IncludedWithoutConflict ==
  \A h \in UserTxns :
    (tx.pc = "idle" /\ Includable(db, h))
      ~> (Settled(db, h) \/ ChainFull \/ PoolConflict(db))
====
